---------------------------- MODULE Spec2Model ----------------------------
(***************************************************************************)
(* Entity resolution / deduplication core of tw-homedog:                   *)
(*   dedup.py          feature extraction, similarity scoring, fingerprint *)
(*   storage.py        the SQLite store, the online gate and the merge     *)
(*   dedup_cleanup.py  the cleanup planner and run_cleanup                 *)
(*                                                                         *)
(* Conventions of the model                                                *)
(*   - a text is a sequence of characters; a character is a short string.  *)
(*     None and "" are both the empty sequence (the code treats them       *)
(*     alike: `if not value`).                                             *)
(*   - an optional number is <<>> (None) or <<n>>.                         *)
(*   - prices and sizes are held in hundredths (NumScale), similarities in *)
(*     millionths (Micro), final scores in ten-thousandths (round(x, 4)),  *)
(*     tolerances in thousandths.                                          *)
(*   - sha1 is modelled as injective: a fingerprint is its payload.        *)
(***************************************************************************)
EXTENDS Integers, Sequences, FiniteSets, TLC

\* ------------------------------------------------------------------------
\* Characters
\* ------------------------------------------------------------------------

\* Digits (\d).
Digits == {"0", "1", "2", "3", "4", "5", "6", "7", "8", "9"}

DigitVal(c) ==
    CASE c = "0" -> 0 [] c = "1" -> 1 [] c = "2" -> 2 [] c = "3" -> 3
      [] c = "4" -> 4 [] c = "5" -> 5 [] c = "6" -> 6 [] c = "7" -> 7
      [] c = "8" -> 8 [] c = "9" -> 9

\* CJK ideographs (the range U+4E00..U+9FFF), written in pinyin:
\*   Tai = U+53F0, TAI = U+81FA (the regional variant pair), Lou = floor
\*   suffix U+6A13, Fang/Ting/Wei/Ce = the room, hall and bath markers.
Cjk == {"Tai", "TAI", "Lou", "Fang", "Ting", "Wei", "Ce",
        "Xiang", "Yang", "Lu", "Lane", "Hao", "Nan", "Gang", "Qu",
        "Yan", "Jiu", "Yuan", "Xi", "Zhi"}

LowerLatin == {"a", "b", "f"}
UpperLatin == {"A", "B", "F"}
Spaces     == {" "}
Puncts     == {"-", "/", "|"}

\* str.lower() on one character
Lower(c) ==
    CASE c = "A" -> "a" [] c = "B" -> "b" [] c = "F" -> "f" [] OTHER -> c

\* a character the pattern [^\w U+4E00-U+9FFF] keeps
IsWord(c) == c \in Digits \cup Cjk \cup LowerLatin \cup UpperLatin \cup {"_"}

RECURSIVE FilterSeq(_, _)
FilterSeq(s, keep) ==
    IF s = <<>> THEN <<>>
    ELSE IF Head(s) \in keep THEN <<Head(s)>> \o FilterSeq(Tail(s), keep)
         ELSE FilterSeq(Tail(s), keep)

Take(s, n) == IF Len(s) <= n THEN s ELSE SubSeq(s, 1, n)

Max(a, b) == IF a >= b THEN a ELSE b
Abs(a)    == IF a >= 0 THEN a ELSE 0 - a

\* ------------------------------------------------------------------------
\* dedup.py: normalisation
\* ------------------------------------------------------------------------

RECURSIVE MapSeq(_, _)
\* s with every character c replaced by f[c] when c is in DOMAIN f
MapSeq(s, f) ==
    IF s = <<>> THEN <<>>
    ELSE <<IF Head(s) \in DOMAIN f THEN f[Head(s)] ELSE Head(s)>>
            \o MapSeq(Tail(s), f)

RECURSIVE LStrip(_)
LStrip(s) == IF s # <<>> /\ Head(s) \in Spaces THEN LStrip(Tail(s)) ELSE s

RECURSIVE RStrip(_)
RStrip(s) ==
    IF s # <<>> /\ s[Len(s)] \in Spaces THEN RStrip(SubSeq(s, 1, Len(s) - 1))
    ELSE s

\* str.strip()
Strip(s) == RStrip(LStrip(s))

\* str.lower()
LowerText(s) == MapSeq(s, [c \in UpperLatin |-> Lower(c)])

\* str.replace(Tai, TAI)
ReplaceTai(s) == MapSeq(s, [c \in {"Tai"} |-> "TAI"])

\* re.sub(r"\s+", "", text)
RemoveSpaces(s) == FilterSeq(s, {s[i] : i \in 1..Len(s)} \ Spaces)

\* re.sub(r"[^\w<CJK>]", "", text)
RemoveNonWord(s) == FilterSeq(s, {c \in {s[i] : i \in 1..Len(s)} : IsWord(c)})

_normalize_text(value) ==
    IF value = <<>> THEN <<>>
    ELSE RemoveNonWord(RemoveSpaces(ReplaceTai(LowerText(Strip(value)))))

RECURSIVE DigitRunLen(_)
\* length of the run of digits s starts with
DigitRunLen(s) ==
    IF s # <<>> /\ Head(s) \in Digits THEN 1 + DigitRunLen(Tail(s)) ELSE 0

\* a pattern that takes one digit before the floor character
StripFloorSuffixOneDigit(s) ==
    IF Len(s) >= 2 /\ s[Len(s) - 1] \in Digits /\ s[Len(s)] = "Lou"
    THEN SubSeq(s, 1, Len(s) - 2)
    ELSE s

RECURSIVE StripFloorSuffix(_)
\* re.sub(r"\d+Lou", "", text)
StripFloorSuffix(s) ==
    IF s = <<>> THEN <<>>
    ELSE IF Head(s) \in Digits
         THEN LET n == DigitRunLen(s)
              IN  IF n < Len(s) /\ s[n + 1] = "Lou"
                  THEN StripFloorSuffix(SubSeq(s, n + 2, Len(s)))
                  ELSE SubSeq(s, 1, n) \o StripFloorSuffix(SubSeq(s, n + 1, Len(s)))
         ELSE <<Head(s)>> \o StripFloorSuffix(Tail(s))

normalize_address(value) == StripFloorSuffix(_normalize_text(value))

\* ------------------------------------------------------------------------
\* dedup.py: sets of grams and tokens, Jaccard
\* ------------------------------------------------------------------------

_bigram_set(text) ==
    IF Len(text) <= 1
    THEN (IF text # <<>> THEN {text} ELSE {})
    ELSE {SubSeq(text, i, i + 1) : i \in 1..(Len(text) - 1)}

AsciiAlnum == Digits \cup LowerLatin \cup UpperLatin

RECURSIVE AlnumRunLen(_)
AlnumRunLen(s) ==
    IF s # <<>> /\ Head(s) \in AsciiAlnum THEN 1 + AlnumRunLen(Tail(s)) ELSE 0

RECURSIVE _token_set(_)
\* set(re.findall(r"[0-9a-zA-Z]+|[<CJK>]", text))
_token_set(text) ==
    IF text = <<>> THEN {}
    ELSE IF Head(text) \in AsciiAlnum
         THEN LET n == AlnumRunLen(text)
              IN  {SubSeq(text, 1, n)} \cup _token_set(SubSeq(text, n + 1, Len(text)))
         ELSE IF Head(text) \in Cjk
              THEN {<<Head(text)>>} \cup _token_set(Tail(text))
              ELSE _token_set(Tail(text))

\* similarities are held in millionths
Micro == 1000 * 1000

\* (n * Micro) \div d without leaving 32 bits, for n, d < 2,000,000
MicroDiv(n, d) ==
    LET q1 == (n * 1000) \div d
        r1 == (n * 1000) % d
    IN  q1 * 1000 + (r1 * 1000) \div d

_jaccard(a, b) ==
    IF a = {} \/ b = {} THEN 0
    ELSE MicroDiv(Cardinality(a \cap b), Cardinality(a \cup b))

\* ------------------------------------------------------------------------
\* dedup.py: parsing
\* ------------------------------------------------------------------------

RECURSIVE DigitsValue(_, _)
\* int() of a run of digits, acc the value read so far
DigitsValue(s, acc) ==
    IF s = <<>> THEN acc
    ELSE DigitsValue(Tail(s), acc * 10 + DigitVal(Head(s)))

RECURSIVE SpaceRunLen(_)
SpaceRunLen(s) ==
    IF s # <<>> /\ Head(s) \in Spaces THEN 1 + SpaceRunLen(Tail(s)) ELSE 0

RECURSIVE _extract_int(_, _)
\* re.search(r"(\d+)\s*[markers]", text): the leftmost run of digits that
\* is followed, after optional white space, by one of the markers
_extract_int(text, markers) ==
    IF text = <<>> THEN <<>>
    ELSE IF Head(text) \in Digits
         THEN LET n    == DigitRunLen(text)
                  rest == SubSeq(text, n + 1, Len(text))
                  w    == SpaceRunLen(rest)
              IN  IF w < Len(rest) /\ rest[w + 1] \in markers
                  THEN <<DigitsValue(SubSeq(text, 1, n), 0)>>
                  ELSE _extract_int(rest, markers)
         ELSE _extract_int(Tail(text), markers)

RECURSIVE FirstInt(_)
\* re.search(r"(\d+)", text)
FirstInt(text) ==
    IF text = <<>> THEN <<>>
    ELSE IF Head(text) \in Digits
         THEN <<DigitsValue(SubSeq(text, 1, DigitRunLen(text)), 0)>>
         ELSE FirstInt(Tail(text))

\* (room, hall, bath)
_parse_layout(text) ==
    [rooms |-> _extract_int(text, {"Fang"}),
     halls |-> _extract_int(text, {"Ting"}),
     baths |-> _extract_int(text, {"Wei", "Ce"})]

\* re.IGNORECASE: f or F, or the floor suffix; else the first integer
_parse_floor(text) ==
    LET m == _extract_int(text, {"f", "F", "Lou"})
    IN  IF m # <<>> THEN m ELSE FirstInt(text)

\* A stored price or size is a number or NULL: float(value) is the number.
_parse_float(value) == value

\* ListingFeatures(...) of a listing whose layout has been parsed
ListingFeatures(listing, lay) ==
    [district  |-> _normalize_text(listing.district),
     address   |-> normalize_address(listing.address),
     community |-> _normalize_text(listing.community_name),
     price     |-> _parse_float(listing.price),
     size_ping |-> _parse_float(listing.size_ping),
     rooms     |-> lay.rooms,
     halls     |-> lay.halls,
     baths     |-> lay.baths,
     floor     |-> _parse_floor(listing.floor)]

listing_to_features(listing) ==
    ListingFeatures(listing, _parse_layout(listing.room))

\* ------------------------------------------------------------------------
\* dedup.py: similarities
\* ------------------------------------------------------------------------

\* prices and sizes are held in hundredths: 1.0 is NumScale
NumScale == 10 * 10

\* a, b optional numbers in hundredths, tolerance in thousandths
_relative_similarity(a, b, tolerance) ==
    IF a = <<>> \/ b = <<>> THEN Micro \div 2
    ELSE IF a[1] = 0 /\ b[1] = 0 THEN Micro
    ELSE LET baseline == Max(Max(Abs(a[1]), Abs(b[1])), NumScale)
             d        == Abs(a[1] - b[1])
             \* diff = d / baseline; diff / tolerance = 1000 d / (baseline tolerance)
         IN  IF d * 1000 <= tolerance * baseline
             THEN IF d = 0 THEN Micro
                  ELSE Micro - MicroDiv(200 * d, baseline * tolerance)
             ELSE IF d * 1000 <= 2 * tolerance * baseline
                  THEN (6 * (Micro - MicroDiv(d * 1000 - tolerance * baseline,
                                              baseline * tolerance))) \div 10
                  ELSE 0

one_dim(x, y) ==
    IF x = <<>> /\ y = <<>> THEN 500000
    ELSE IF x = <<>> \/ y = <<>> THEN 300000
    ELSE IF x = y THEN Micro
    ELSE IF Abs(x[1] - y[1]) = 1 THEN 400000
    ELSE 0

_layout_similarity(a, b) ==
    (one_dim(a.rooms, b.rooms) + one_dim(a.halls, b.halls)
       + one_dim(a.baths, b.baths) + one_dim(a.floor, b.floor)) \div 4

RECURSIVE CommonPrefixLen(_, _, _, _, _, _)
\* length of the longest common prefix of a[i..ahi] and b[j..bhi]
CommonPrefixLen(a, i, ahi, b, j, bhi) ==
    IF i <= ahi /\ j <= bhi /\ a[i] = b[j]
    THEN 1 + CommonPrefixLen(a, i + 1, ahi, b, j + 1, bhi)
    ELSE 0

\* SequenceMatcher.find_longest_match (no junk; autojunk needs 200
\* characters): the longest block, of those the one that starts earliest
\* in a, of those the one that starts earliest in b
find_longest_match(a, alo, ahi, b, blo, bhi) ==
    LET len(i, j) == CommonPrefixLen(a, i, ahi, b, j, bhi)
        pairs == (alo..ahi) \X (blo..bhi)
        best  == CHOOSE p \in pairs :
                    \A q \in pairs :
                        \/ len(p[1], p[2]) > len(q[1], q[2])
                        \/ /\ len(p[1], p[2]) = len(q[1], q[2])
                           /\ \/ p[1] < q[1]
                              \/ p[1] = q[1] /\ p[2] <= q[2]
    IN  [i |-> best[1], j |-> best[2], size |-> len(best[1], best[2])]

RECURSIVE MatchedChars(_, _, _, _, _, _)
RECURSIVE MatchedAround(_, _, _, _, _, _, _)
\* the block m and the blocks matched to its left and to its right
MatchedAround(a, alo, ahi, b, blo, bhi, m) ==
    IF m.size = 0 THEN 0
    ELSE m.size
         + MatchedChars(a, alo, m.i - 1, b, blo, m.j - 1)
         + MatchedChars(a, m.i + m.size, ahi, b, m.j + m.size, bhi)

\* the sum of the sizes of SequenceMatcher.get_matching_blocks
MatchedChars(a, alo, ahi, b, blo, bhi) ==
    IF alo > ahi \/ blo > bhi THEN 0
    ELSE MatchedAround(a, alo, ahi, b, blo, bhi,
                       find_longest_match(a, alo, ahi, b, blo, bhi))

\* SequenceMatcher(None, a, b).ratio()
SequenceRatio(a, b) ==
    IF Len(a) + Len(b) = 0 THEN Micro
    ELSE MicroDiv(2 * MatchedChars(a, 1, Len(a), b, 1, Len(b)), Len(a) + Len(b))

_address_similarity(a, b) ==
    IF a.address = <<>> \/ b.address = <<>> THEN 0
    ELSE IF a.address = b.address THEN Micro
    ELSE LET seq  == SequenceRatio(a.address, b.address)
             gram == _jaccard(_bigram_set(a.address), _bigram_set(b.address))
             tok  == _jaccard(_token_set(a.address), _token_set(b.address))
         IN  Max(seq, (gram + tok) \div 2)

\* ------------------------------------------------------------------------
\* dedup.py: the score
\* ------------------------------------------------------------------------

\* in ten-thousandths (0.82), thousandths (0.05, 0.08)
DEFAULT_DEDUP_THRESHOLD == 8200
DEFAULT_PRICE_TOLERANCE == 50
DEFAULT_SIZE_TOLERANCE  == 80

\* round(x, 4) of a value in millionths, in ten-thousandths
Round4(x) == (x + 50) \div 100

\* the guard: without a community match, an address similarity below
\* 0.45 caps the score at 0.69
GuardCapped(community_match, address_sim) ==
    ~community_match /\ address_sim < 450000

\* the reason tags, in the order the code appends them
ReasonTags(district_match, community_match, address_sim, price_sim, size_sim, layout_sim) ==
    (IF district_match THEN <<"district">> ELSE <<>>)
    \o (IF community_match THEN <<"community">> ELSE <<>>)
    \o (IF address_sim >= 700000 THEN <<"address">> ELSE <<>>)
    \o (IF price_sim >= 800000 THEN <<"price">> ELSE <<>>)
    \o (IF size_sim >= 800000 THEN <<"size">> ELSE <<>>)
    \o (IF layout_sim >= 700000 THEN <<"layout">> ELSE <<>>)

\* the weighted sum, in millionths
RawScore(district_match, address_sim, price_sim, size_sim, layout_sim) ==
    (55 * address_sim
     + 10 * (IF district_match THEN Micro ELSE 0)
     + 15 * price_sim
     + 10 * size_sim
     + 10 * layout_sim) \div 100

\* a score without the guard
UncappedScore(community_match, address_sim, raw) == raw

CappedScore(community_match, address_sim, raw) ==
    IF GuardCapped(community_match, address_sim) /\ raw > 690000
    THEN 690000 ELSE raw

ReasonOf(tags) == IF tags # <<>> THEN tags ELSE <<"low_signal">>

\* DedupScore(...) from the six signals
DedupScore(district_match, community_match, address_sim, price_sim, size_sim, layout_sim) ==
    [score              |-> Round4(CappedScore(community_match, address_sim,
                                RawScore(district_match, address_sim, price_sim,
                                         size_sim, layout_sim))),
     address_similarity |-> Round4(address_sim),
     price_similarity   |-> Round4(price_sim),
     size_similarity    |-> Round4(size_sim),
     layout_similarity  |-> Round4(layout_sim),
     district_match     |-> district_match,
     reason             |-> ReasonOf(ReasonTags(district_match, community_match,
                                address_sim, price_sim, size_sim, layout_sim))]

\* the score of two feature records
ScoreFeatures(a, b, price_tolerance, size_tolerance) ==
    DedupScore(a.district # <<>> /\ a.district = b.district,
               a.community # <<>> /\ a.community = b.community,
               _address_similarity(a, b),
               _relative_similarity(a.price, b.price, price_tolerance),
               _relative_similarity(a.size_ping, b.size_ping, size_tolerance),
               _layout_similarity(a, b))

score_duplicate(left, right, price_tolerance, size_tolerance) ==
    ScoreFeatures(listing_to_features(left), listing_to_features(right),
                  price_tolerance, size_tolerance)

is_duplicate(score, threshold) == score >= threshold

\* ------------------------------------------------------------------------
\* dedup.py: the entity fingerprint
\* ------------------------------------------------------------------------

AddressKeyLen == 24

\* re.sub(r"\d+", "", address)[:24]
_coarse_address_key(address) ==
    IF address = <<>> THEN <<>>
    ELSE Take(FilterSeq(address, {address[i] : i \in 1..Len(address)} \ Digits),
              AddressKeyLen)

\* "|".join(parts that are not empty)
JoinParts(district, address_key) ==
    IF district # <<>> /\ address_key # <<>>
    THEN district \o <<"|">> \o address_key
    ELSE district \o address_key

\* hashlib.sha1(payload).hexdigest(), modelled as injective: the digest is
\* the tagged payload. It is never the empty string, also for payload "".
Sha1(payload) == <<"sha1">> \o payload

\* the coarse address key, else the first 24 characters of the title
AddressKey(listing, k0) ==
    IF k0 # <<>> THEN k0
    ELSE Take(_normalize_text(listing.title), AddressKeyLen)

\* the joined parts, else the listing id (as payload one symbol), else ""
Payload(listing, joined) ==
    IF joined # <<>> THEN joined
    ELSE IF listing.listing_id # "" THEN <<listing.listing_id>>
    ELSE <<>>

FingerprintOf(listing, f) ==
    Sha1(Payload(listing,
            JoinParts(f.district,
                      AddressKey(listing, _coarse_address_key(f.address)))))

build_entity_fingerprint(listing) ==
    FingerprintOf(listing, listing_to_features(listing))

\* ------------------------------------------------------------------------
\* dedup.py: the canonical record
\* ------------------------------------------------------------------------

CompletenessKeys ==
    {"title", "address", "district", "price", "size_ping", "floor", "room",
     "houseage", "community_name", "main_area", "direction", "unit_price",
     "kind_name"}

\* the keys whose value is not None, "" or []
_completeness_score(listing) ==
    Cardinality({k \in CompletenessKeys : listing[k] # <<>>})

LinkedStateWithoutFavorites(linked) ==
    linked.notifications * 3 + linked.reads * 2

_linked_state_score(linked) ==
    linked.favorites * 4 + linked.notifications * 3 + linked.reads * 2

\* published_at, else created_at, else 0.0
_timestamp_score(listing) ==
    IF listing.published_at # <<>> THEN listing.published_at[1]
    ELSE IF listing.created_at # <<>> THEN listing.created_at[1]
    ELSE 0

\* The listing ids of the model in Python's string order ("" is smallest).
IdOrder == <<"", "a", "b", "c", "d">>
Ids     == {IdOrder[i] : i \in 1..Len(IdOrder)}
IdRank(lid) == CHOOSE i \in 1..Len(IdOrder) : IdOrder[i] = lid

CanonicalKeyCompletenessFirst(item, relation_counts) ==
    <<_completeness_score(item),
      _linked_state_score(relation_counts[item.listing_id]),
      _timestamp_score(item),
      IdRank(item.listing_id)>>

\* key_func: (linked, complete, ts, lid)
CanonicalKey(item, relation_counts) ==
    <<_linked_state_score(relation_counts[item.listing_id]),
      _completeness_score(item),
      _timestamp_score(item),
      IdRank(item.listing_id)>>

\* Python's order on tuples of equal length
RECURSIVE TupleLess(_, _)
TupleLess(x, y) ==
    IF x = <<>> THEN FALSE
    ELSE \/ Head(x) < Head(y)
         \/ Head(x) = Head(y) /\ TupleLess(Tail(x), Tail(y))

RECURSIVE MaxByKey(_, _)
\* max(listings, key=...): the first item no later item exceeds
MaxByKey(listings, relation_counts) ==
    IF Len(listings) = 1 THEN listings[1]
    ELSE LET rest == MaxByKey(Tail(listings), relation_counts)
         IN  IF TupleLess(CanonicalKey(Head(listings), relation_counts),
                          CanonicalKey(rest, relation_counts))
             THEN rest ELSE Head(listings)

\* listings is a non-empty sequence of rows
choose_canonical_listing(listings, relation_counts) ==
    MaxByKey(listings, relation_counts)

\* ------------------------------------------------------------------------
\* The listings of the model
\* ------------------------------------------------------------------------

Sources == {"591", "yc"}

NoText == <<>>

\* test_storage_dedup.py's _listing(), shortened: a three-room flat in
\* Nangang district, 100 (price) and 30.00 ping, published at time 2
BaseListing ==
    [source           |-> "591",
     listing_id       |-> "a",
     title            |-> <<"Nan", "Gang">>,
     price            |-> <<10000>>,
     address          |-> <<"TAI", "Xiang", "Yang", "Lu", "1", "2", "Lane", "3", "Hao">>,
     district         |-> <<"Nan", "Gang", "Qu">>,
     size_ping        |-> <<3000>>,
     floor            |-> <<"5", "F", "/", "1", "2", "F">>,
     room             |-> <<"3", "Fang", "2", "Ting", "2", "Wei">>,
     community_name   |-> NoText,
     published_at     |-> <<2>>,
     raw_hash         |-> "h1",
     entity_fingerprint |-> NoText,
     houseage         |-> NoText,
     unit_price       |-> NoText,
     kind_name        |-> NoText,
     main_area        |-> NoText,
     direction        |-> NoText,
     created_at       |-> NoText]

\* 1  A: the base listing
\* 2  B: another broker's post of A's flat: house number 5, price 104
\* 3  C: house number 15-5, price 108, older, with the house age filled in:
\*       close to B, not to A
\* 4  A2: A's (source, listing_id) with another flat's content
\* 5  D: A's title, price, address and content hash under listing id b
\* 6  X: B's content and content hash from another source, listing id a
\* 7  E: no listing id, no content hash, no price, size or date; A's
\*       address in another format (variant character, white space,
\*       punctuation, floor suffix)
\* 8  F: the flat of entry 4 posted again under listing id d, price 101
\* 9  G: A's flat in lane 31, house number 1, under listing id d
Catalog ==
    << BaseListing,
       [BaseListing EXCEPT
          !.listing_id = "b", !.raw_hash = "h2", !.price = <<10400>>,
          !.address = <<"TAI", "Xiang", "Yang", "Lu", "1", "2", "Lane", "5", "Hao">>],
       [BaseListing EXCEPT
          !.listing_id = "c", !.raw_hash = "h3", !.price = <<10800>>,
          !.published_at = <<1>>, !.houseage = <<"5">>,
          !.address = <<"TAI", "Xiang", "Yang", "Lu", "1", "5", "Lane", "5", "Hao">>],
       [BaseListing EXCEPT
          !.raw_hash = "h4", !.title = <<"Yan", "Jiu", "Yuan">>,
          !.address = <<"Yan", "Jiu", "Yuan", "Lu", "7", "Hao">>,
          !.floor = <<"2", "Lou">>],
       [BaseListing EXCEPT
          !.listing_id = "b", !.size_ping = <<3010>>],
       [BaseListing EXCEPT
          !.source = "yc", !.raw_hash = "h2", !.price = <<10400>>,
          !.address = <<"TAI", "Xiang", "Yang", "Lu", "1", "2", "Lane", "5", "Hao">>],
       [BaseListing EXCEPT
          !.listing_id = "", !.raw_hash = "", !.price = <<>>, !.size_ping = <<>>,
          !.published_at = <<>>,
          !.address = <<" ", "Tai", "Xiang", "Yang", "-", "Lu", " ", "1", "2",
                        "Lane", "3", "Hao", "5", "Lou">>],
       [BaseListing EXCEPT
          !.listing_id = "d", !.raw_hash = "h5", !.price = <<10100>>,
          !.title = <<"Yan", "Jiu", "Yuan">>,
          !.address = <<"Yan", "Jiu", "Yuan", "Lu", "7", "Hao">>,
          !.floor = <<"2", "Lou">>],
       [BaseListing EXCEPT
          !.listing_id = "d", !.raw_hash = "h6",
          !.address = <<"TAI", "Xiang", "Yang", "Lu", "3", "1", "Lane", "1", "Hao">>] >>

CatalogIdx == 1..Len(Catalog)

\* ------------------------------------------------------------------------
\* storage.py: the store
\* ------------------------------------------------------------------------

\* listings            sequence of catalogue indices in insertion order
\*                     (the AUTOINCREMENT id order)
\* notifications_sent  set of <<source, listing_id, channel>>
\* listings_read       set of [source, listing_id, raw_hash]
\* favorites           set of <<source, listing_id>>
\* dedup_audit         sequence of audit events
\* batch_cache         the caller's batch cache: catalogue indices of the
\*                     listings inserted in this batch, in order
\* relOps              number of relation operations so far (model bound)
\* last                the last operation, its arguments and what it returned
\* calls               the gate calls that run statement by statement: for
\*                     each caller its position in the gate, its arguments,
\*                     its own batch cache and the dict it returns
\* bot                 bot.py: the module's _pipeline_running flag, the
\*                     scheduler.paused setting, the number of "pipeline"
\*                     jobs in the job queue, and the frame of the
\*                     /dedupall command while it runs
\* chat                notifier.py: the listings, as (source, listing_id),
\*                     whose message the Bot API has accepted for the chat
\*                     config.telegram.chat_id
VARIABLES listings, notifications_sent, listings_read, favorites,
          dedup_audit, batch_cache, relOps, last, calls, bot, chat

tables == <<listings, notifications_sent, listings_read, favorites, dedup_audit>>
vars   == <<listings, notifications_sent, listings_read, favorites,
            dedup_audit, batch_cache, relOps, last, calls, bot, chat>>

\* the committed database as one value
Db == [listings           |-> listings,
       notifications_sent |-> notifications_sent,
       listings_read      |-> listings_read,
       favorites          |-> favorites,
       dedup_audit        |-> dedup_audit]

Channels == {"telegram", "line"}

\* _normalize_listing: the fingerprint is computed unless the caller gave one
_normalize_listing(listing) ==
    [listing EXCEPT !.entity_fingerprint =
        IF listing.entity_fingerprint # NoText THEN listing.entity_fingerprint
        ELSE build_entity_fingerprint(listing)]

\* created_at is the insertion time: the default datetime('now'), later
\* than every published_at of the catalogue and growing with the row id
CreatedAt(pos) == 2 + pos

\* the catalogue as the store sees it, and the pairwise scores under the
\* default tolerances (the callers of this model never override them)
Normalized == [i \in CatalogIdx |-> _normalize_listing(Catalog[i])]

ScoreTable ==
    [i \in CatalogIdx |->
        [j \in CatalogIdx |->
            score_duplicate(Normalized[i], Normalized[j],
                            DEFAULT_PRICE_TOLERANCE, DEFAULT_SIZE_TOLERANCE)]]

\* the listing row at position pos of the table, as a dict
RowAt(rows, pos) ==
    [Normalized[rows[pos]] EXCEPT !.created_at = <<CreatedAt(pos)>>]

Positions(rows) == 1..Len(rows)

\* SELECT ... FROM listings WHERE source = ? AND listing_id = ?
RowsByKey(rows, source, listing_id) ==
    {p \in Positions(rows) :
        /\ Catalog[rows[p]].source = source
        /\ Catalog[rows[p]].listing_id = listing_id}

HasListing(rows, source, listing_id) == RowsByKey(rows, source, listing_id) # {}

\* a lookup by content hash that finds no row
RowsByHashFindsNone(rows, raw_hash) == {}

\* SELECT listing_id, source FROM listings WHERE raw_hash = ?
RowsByHash(rows, raw_hash) ==
    {p \in Positions(rows) : Catalog[rows[p]].raw_hash = raw_hash}

RECURSIVE SeqOfSetDesc(_)
\* the numbers of S, largest first
SeqOfSetDesc(S) ==
    IF S = {} THEN <<>>
    ELSE LET m == CHOOSE x \in S : \A y \in S : y <= x
         IN  <<m>> \o SeqOfSetDesc(S \ {m})

CandidateLimit == 200

\* a query that returns the newest row of the bucket only
NewestCandidateOnly(rows, source, entity_fingerprint) ==
    IF entity_fingerprint = NoText THEN <<>>
    ELSE Take(SeqOfSetDesc({p \in Positions(rows) :
                 /\ Catalog[rows[p]].source = source
                 /\ Normalized[rows[p]].entity_fingerprint = entity_fingerprint}),
              1)

\* get_dedup_candidates: the rows of the source with this stored
\* fingerprint, newest first, at most 200
get_dedup_candidates(rows, source, entity_fingerprint) ==
    IF entity_fingerprint = NoText THEN <<>>
    ELSE Take(SeqOfSetDesc({p \in Positions(rows) :
                 /\ Catalog[rows[p]].source = source
                 /\ Normalized[rows[p]].entity_fingerprint = entity_fingerprint}),
              CandidateLimit)

\* record_dedup_decision: one more row in dedup_audit
\* a statement that replaces the row of the listing's last decision
ReplaceDedupDecision(db, event_type, source, listing_id, canonical_listing_id, candidate_ids, score, reason, entity_fingerprint, metadata) ==
    [db EXCEPT !.dedup_audit =
        Append(IF @ = <<>> THEN @ ELSE SubSeq(@, 1, Len(@) - 1),
               [event_type           |-> event_type,
                source               |-> source,
                listing_id           |-> listing_id,
                canonical_listing_id |-> canonical_listing_id,
                candidate_ids        |-> candidate_ids,
                score                |-> score,
                reason               |-> reason,
                entity_fingerprint   |-> entity_fingerprint,
                metadata             |-> metadata])]

record_dedup_decision(db, event_type, source, listing_id, canonical_listing_id, candidate_ids, score, reason, entity_fingerprint, metadata) ==
    [db EXCEPT !.dedup_audit = Append(@,
        [event_type           |-> event_type,
         source               |-> source,
         listing_id           |-> listing_id,
         canonical_listing_id |-> canonical_listing_id,
         candidate_ids        |-> candidate_ids,
         score                |-> score,
         reason               |-> reason,
         entity_fingerprint   |-> entity_fingerprint,
         metadata             |-> metadata])]

NoCandidate == [best_score |-> 0, best_candidate |-> <<>>]

\* a cache whose buckets are never read
CacheBucketIgnored(cache, fingerprint) == <<>>

\* batch_cache.get(fingerprint, [])
CacheBucket(cache, fingerprint) ==
    FilterSeq(cache, {c \in CatalogIdx : Normalized[c].entity_fingerprint = fingerprint})

GateResult(inserted, reason, score, canonical_listing_id, fingerprint) ==
    [inserted             |-> inserted,
     reason               |-> reason,
     score                |-> score,
     canonical_listing_id |-> canonical_listing_id,
     entity_fingerprint   |-> fingerprint]

\* a lookup that takes a row for the listing only when its content hash
\* matches as well
ExistingIdSameContent(rows, listing) ==
    {p \in RowsByKey(rows, listing.source, listing.listing_id) :
        Catalog[rows[p]].raw_hash = listing.raw_hash}

\* existing_id: the rows with the listing's (source, listing_id)
ExistingId(rows, listing) ==
    RowsByKey(rows, listing.source, listing.listing_id)

\* best_candidate and best_score after candidate c has become the best
BestOf(c, scored, from_batch) ==
    [best_score     |-> scored.score,
     best_candidate |->
        <<[listing_id |-> Catalog[c].listing_id,
           reason     |-> IF from_batch THEN <<"batch:">> \o scored.reason
                          ELSE scored.reason,
           score      |-> scored.score]>>]

\* a scan that keeps the first candidate it meets
ScanCandidatesKeepFirst(i, candidates, from_batch, best) ==
    IF candidates = <<>> \/ best.best_candidate # <<>> THEN best
    ELSE BestOf(Head(candidates), ScoreTable[i][Head(candidates)], from_batch)

RECURSIVE ScanLoop(_, _, _, _)
ScanLoop(i, candidates, from_batch, best) ==
    IF candidates = <<>> THEN best
    ELSE ScanLoop(i, Tail(candidates), from_batch,
             IF ScoreTable[i][Head(candidates)].score > best.best_score
             THEN BestOf(Head(candidates), ScoreTable[i][Head(candidates)],
                         from_batch)
             ELSE best)

\* the two candidate loops of the gate: a candidate replaces the best so
\* far only when it scores strictly higher
ScanCandidates(i, candidates, from_batch, best) ==
    ScanLoop(i, candidates, from_batch, best)

\* a gate that scores whenever there is a fingerprint
ScoringAppliesAlways(dedup_enabled, fingerprint) == fingerprint # NoText

\* if dedup_enabled and fingerprint: the candidates are scored
ScoringApplies(dedup_enabled, fingerprint) ==
    dedup_enabled /\ fingerprint # NoText

\* insert_listing_with_dedup: the outcomes of gating catalogue entry i.
\* cache is the caller's batch cache, use_cache tells whether it is passed.
\* Each outcome holds the returned dict, the database and the cache after.
insert_listing_with_dedup(db, cache, use_cache, i, dedup_enabled, dedup_threshold) ==
    LET listing     == Normalized[i]
        source      == listing.source
        listing_id  == listing.listing_id
        fingerprint == listing.entity_fingerprint
        rows        == db.listings
        existing_id == ExistingId(rows, listing)
        existing_hash == IF listing.raw_hash # "" THEN RowsByHash(rows, listing.raw_hash)
                         ELSE {}
        skip(reason, canonical, score, audit_reason, returned) ==
            [result |-> GateResult(FALSE, reason, returned, <<canonical>>, fingerprint),
             db     |-> record_dedup_decision(db, "skip", source, listing_id,
                            <<canonical>>, <<canonical>>, <<score>>, audit_reason,
                            fingerprint, <<>>),
             cache  |-> cache]
        db_candidates == get_dedup_candidates(rows, source, fingerprint)
        db_best  == ScanCandidates(i,
                        [k \in 1..Len(db_candidates) |-> rows[db_candidates[k]]],
                        FALSE, NoCandidate)
        best     == IF use_cache /\ cache # <<>>
                    THEN ScanCandidates(i, CacheBucket(cache, fingerprint), TRUE, db_best)
                    ELSE db_best
    IN  IF existing_id # {}
        THEN {skip("duplicate_listing_id", Catalog[rows[p]].listing_id, 10000,
                   <<"duplicate_listing_id">>, <<>>) : p \in existing_id}
        ELSE IF existing_hash # {}
        THEN {skip("duplicate_raw_hash", Catalog[rows[p]].listing_id, 10000,
                   <<"duplicate_raw_hash">>, <<>>) : p \in existing_hash}
        ELSE IF /\ ScoringApplies(dedup_enabled, fingerprint)
                /\ best.best_candidate # <<>>
                /\ best.best_score >= dedup_threshold
        THEN {skip("duplicate_entity", best.best_candidate[1].listing_id,
                   best.best_score, best.best_candidate[1].reason,
                   <<best.best_score>>)}
        ELSE {[result |-> GateResult(TRUE, "inserted", <<>>, <<>>, fingerprint),
               db     |-> [db EXCEPT !.listings = Append(@, i)],
               cache  |-> IF use_cache /\ fingerprint # NoText
                          THEN Append(cache, i) ELSE cache]}

\* ------------------------------------------------------------------------
\* storage.py: the gate, statement by statement
\* ------------------------------------------------------------------------

\* a skip that returns without writing the audit row
SkipWithoutAudit(db, i, reason, canonical, score, audit_reason, returned) ==
    [result |-> GateResult(FALSE, reason, returned, <<canonical>>,
                           Normalized[i].entity_fingerprint),
     db     |-> db]

\* a skip: the returned dict and the database with the audit row
SkipDecision(db, i, reason, canonical, score, audit_reason, returned) ==
    [result |-> GateResult(FALSE, reason, returned, <<canonical>>,
                           Normalized[i].entity_fingerprint),
     db     |-> record_dedup_decision(db, "skip", Normalized[i].source,
                    Normalized[i].listing_id, <<canonical>>, <<canonical>>,
                    <<score>>, audit_reason,
                    Normalized[i].entity_fingerprint, <<>>)]

\* the SELECT by (source, listing_id): the skips it leads to
KeyDecisions(db, i) ==
    {SkipDecision(db, i, "duplicate_listing_id",
                  Catalog[db.listings[p]].listing_id, 10000,
                  <<"duplicate_listing_id">>, <<>>) :
        p \in ExistingId(db.listings, Normalized[i])}

\* the SELECT by raw_hash, when the listing has one
HashDecisions(db, i) ==
    {SkipDecision(db, i, "duplicate_raw_hash",
                  Catalog[db.listings[p]].listing_id, 10000,
                  <<"duplicate_raw_hash">>, <<>>) :
        p \in IF Normalized[i].raw_hash # ""
              THEN RowsByHash(db.listings, Normalized[i].raw_hash) ELSE {}}

\* the candidates of the database as catalogue entries, newest first
StoredCandidates(rows, candidates) ==
    [k \in 1..Len(candidates) |-> rows[candidates[k]]]

\* the best candidate of the database and of the batch cache
BestCandidate(db, cache, i) ==
    ScanCandidates(i, CacheBucket(cache, Normalized[i].entity_fingerprint), TRUE,
        ScanCandidates(i,
            StoredCandidates(db.listings,
                get_dedup_candidates(db.listings, Normalized[i].source,
                                     Normalized[i].entity_fingerprint)),
            FALSE, NoCandidate))

\* the skip the best candidate leads to, when dedup is enabled
EntityDecision(db, i, dedup_enabled, dedup_threshold, best) ==
    IF /\ ScoringApplies(dedup_enabled, Normalized[i].entity_fingerprint)
       /\ best.best_candidate # <<>>
       /\ best.best_score >= dedup_threshold
    THEN {SkipDecision(db, i, "duplicate_entity",
                       best.best_candidate[1].listing_id, best.best_score,
                       best.best_candidate[1].reason, <<best.best_score>>)}
    ELSE {}

\* an insert that registers the listing in the cache also when it fails
InsertRegistersAlways(db, cache, i) ==
    IF HasListing(db.listings, Normalized[i].source, Normalized[i].listing_id)
    THEN [result |-> GateResult(FALSE, "duplicate_integrity", <<>>, <<>>,
                                Normalized[i].entity_fingerprint),
          db     |-> db,
          cache  |-> Append(cache, i)]
    ELSE [result |-> GateResult(TRUE, "inserted", <<>>, <<>>,
                                Normalized[i].entity_fingerprint),
          db     |-> [db EXCEPT !.listings = Append(@, i)],
          cache  |-> Append(cache, i)]

\* an insert into a table without UNIQUE(source, listing_id)
InsertWithoutConstraint(db, cache, i) ==
    [result |-> GateResult(TRUE, "inserted", <<>>, <<>>,
                           Normalized[i].entity_fingerprint),
     db     |-> [db EXCEPT !.listings = Append(@, i)],
     cache  |-> Append(cache, i)]

\* the try block: the INSERT raises sqlite3.IntegrityError when a row has
\* the key (UNIQUE(source, listing_id)); else the row is committed and the
\* listing is registered in the caller's batch cache
InsertDecision(db, cache, i) ==
    IF HasListing(db.listings, Normalized[i].source, Normalized[i].listing_id)
    THEN [result |-> GateResult(FALSE, "duplicate_integrity", <<>>, <<>>,
                                Normalized[i].entity_fingerprint),
          db     |-> db,
          cache  |-> cache]
    ELSE [result |-> GateResult(TRUE, "inserted", <<>>, <<>>,
                                Normalized[i].entity_fingerprint),
          db     |-> [db EXCEPT !.listings = Append(@, i)],
          cache  |-> IF Normalized[i].entity_fingerprint # NoText
                     THEN Append(cache, i) ELSE cache]

\* ------------------------------------------------------------------------
\* storage.py: relation tables
\* ------------------------------------------------------------------------

\* SELECT raw_hash FROM listings WHERE source = ? AND listing_id = ?
\* (None when there is no such row)
StoredHash(rows, source, listing_id) ==
    LET found == RowsByKey(rows, source, listing_id)
    IN  IF found = {} THEN <<>>
        ELSE <<Catalog[rows[CHOOSE p \in found : TRUE]].raw_hash>>

record_notification(db, source, listing_id, channel) ==
    [db EXCEPT !.notifications_sent = @ \cup {<<source, listing_id, channel>>}]

ReadRow(source, listing_id, raw_hash) ==
    [source |-> source, listing_id |-> listing_id, raw_hash |-> raw_hash]

ReadRowsOf(reads, source, listing_id) ==
    {r \in reads : r.source = source /\ r.listing_id = listing_id}

\* INSERT ... ON CONFLICT(source, listing_id) DO UPDATE SET raw_hash = ...
mark_as_read(db, source, listing_id) ==
    [db EXCEPT !.listings_read =
        (@ \ ReadRowsOf(@, source, listing_id))
            \cup {ReadRow(source, listing_id, StoredHash(db.listings, source, listing_id))}]

RECURSIVE mark_many_as_read(_, _, _)
\* every hash is looked up before the first write; the writes do not change
\* the listings, so marking one id after the other gives the same rows
mark_many_as_read(db, source, listing_ids) ==
    IF listing_ids = <<>> THEN db
    ELSE mark_many_as_read(mark_as_read(db, source, Head(listing_ids)),
                           source, Tail(listing_ids))

add_favorite(db, source, listing_id) ==
    [db EXCEPT !.favorites = @ \cup {<<source, listing_id>>}]

remove_favorite(db, source, listing_id) ==
    [db EXCEPT !.favorites = @ \ {<<source, listing_id>>}]

\* get_relation_counts: for each id of the list, its rows in the three tables
get_relation_counts(db, source, listing_ids) ==
    [lid \in {listing_ids[k] : k \in 1..Len(listing_ids)} |->
        [notifications |-> Cardinality({n \in db.notifications_sent :
                                           n[1] = source /\ n[2] = lid}),
         reads         |-> Cardinality(ReadRowsOf(db.listings_read, source, lid)),
         favorites     |-> Cardinality({f \in db.favorites :
                                           f[1] = source /\ f[2] = lid})]]

\* validate_relation_integrity: relation rows whose listing does not exist
\* a validator whose three queries all read notifications_sent
ValidateOneTable(db) ==
    [notifications_sent |-> Cardinality({n \in db.notifications_sent :
                                ~HasListing(db.listings, n[1], n[2])}),
     listings_read      |-> Cardinality({n \in db.notifications_sent :
                                ~HasListing(db.listings, n[1], n[2])}),
     favorites          |-> Cardinality({n \in db.notifications_sent :
                                ~HasListing(db.listings, n[1], n[2])})]

validate_relation_integrity(db) ==
    [notifications_sent |-> Cardinality({n \in db.notifications_sent :
                                ~HasListing(db.listings, n[1], n[2])}),
     listings_read      |-> Cardinality({r \in db.listings_read :
                                ~HasListing(db.listings, r.source, r.listing_id)}),
     favorites          |-> Cardinality({f \in db.favorites :
                                ~HasListing(db.listings, f[1], f[2])})]

\* ------------------------------------------------------------------------
\* storage.py: merge_duplicate_group
\* ------------------------------------------------------------------------

EffectiveDuplicatesKeepCanonical(canonical_listing_id, duplicate_listing_ids) ==
    FilterSeq(duplicate_listing_ids, Ids \ {""})

EffectiveDuplicatesKeepEmpty(canonical_listing_id, duplicate_listing_ids) ==
    FilterSeq(duplicate_listing_ids, Ids \ {canonical_listing_id})

\* the ids that survive the filter: not empty and not the canonical id
EffectiveDuplicates(canonical_listing_id, duplicate_listing_ids) ==
    FilterSeq(duplicate_listing_ids, Ids \ {"", canonical_listing_id})

StatementsPerDuplicate == 8

\* INSERT OR IGNORE INTO notifications_sent ... SELECT ... WHERE listing_id = dup
CopyNotifications(db, source, canonical_listing_id, dup) ==
    [db EXCEPT !.notifications_sent = @ \cup
        {<<source, canonical_listing_id, n[3]>> :
            n \in {m \in @ : m[1] = source /\ m[2] = dup}}]

\* a copy that keeps the content hash of the duplicate's read row
CopyReadWithDuplicateHash(db, source, canonical_listing_id, canonical_hash, dup) ==
    [db EXCEPT !.listings_read =
        IF \/ ReadRowsOf(@, source, dup) = {}
           \/ ReadRowsOf(@, source, canonical_listing_id) # {}
        THEN @
        ELSE @ \cup {ReadRow(source, canonical_listing_id, r.raw_hash) :
                        r \in ReadRowsOf(@, source, dup)}]

\* INSERT OR IGNORE INTO listings_read, with the canonical's content hash
CopyRead(db, source, canonical_listing_id, canonical_hash, dup) ==
    [db EXCEPT !.listings_read =
        IF \/ ReadRowsOf(@, source, dup) = {}
           \/ ReadRowsOf(@, source, canonical_listing_id) # {}
        THEN @
        ELSE @ \cup {ReadRow(source, canonical_listing_id, canonical_hash)}]

CopyFavoriteDropped(db, source, canonical_listing_id, dup) == db

\* INSERT OR IGNORE INTO favorites ... SELECT ... WHERE listing_id = dup
CopyFavorite(db, source, canonical_listing_id, dup) ==
    [db EXCEPT !.favorites =
        IF <<source, dup>> \in @ THEN @ \cup {<<source, canonical_listing_id>>}
        ELSE @]

DeleteNotifications(db, source, dup) ==
    [db EXCEPT !.notifications_sent = {n \in @ : ~(n[1] = source /\ n[2] = dup)}]

DeleteRead(db, source, dup) ==
    [db EXCEPT !.listings_read = @ \ ReadRowsOf(@, source, dup)]

DeleteFavoriteSkipped(db, source, dup) == db

DeleteFavorite(db, source, dup) ==
    [db EXCEPT !.favorites = @ \ {<<source, dup>>}]

\* a merge that leaves the listing row of the duplicate
DeleteListingSkipped(db, source, dup) == db

\* DELETE FROM listings WHERE source = ? AND listing_id = ?
DeleteListing(db, source, dup) ==
    [db EXCEPT !.listings =
        FilterSeq(@, {i \in CatalogIdx :
            ~(Catalog[i].source = source /\ Catalog[i].listing_id = dup)})]

\* the k-th statement (1..8) of the loop body for one duplicate
MergeStatement(db, k, source, canonical_listing_id, canonical_hash, dup, score, reason, entity_fingerprint) ==
    CASE k = 1 -> CopyNotifications(db, source, canonical_listing_id, dup)
      [] k = 2 -> CopyRead(db, source, canonical_listing_id, canonical_hash, dup)
      [] k = 3 -> CopyFavorite(db, source, canonical_listing_id, dup)
      [] k = 4 -> DeleteNotifications(db, source, dup)
      [] k = 5 -> DeleteRead(db, source, dup)
      [] k = 6 -> DeleteFavorite(db, source, dup)
      [] k = 7 -> DeleteListing(db, source, dup)
      [] OTHER ->
           record_dedup_decision(db, "merge", source, dup, <<canonical_listing_id>>,
               <<dup>>, score, reason, entity_fingerprint, <<>>)

RECURSIVE RunMerge(_, _, _, _, _, _, _, _, _)
\* the first `count` statements of the loop over the duplicates, from
\* statement `done + 1` on
RunMerge(db, done, count, source, canonical_listing_id, canonical_hash, dups, score, reason_fp) ==
    IF done >= count THEN db
    ELSE LET dup == dups[(done \div StatementsPerDuplicate) + 1]
             k   == (done % StatementsPerDuplicate) + 1
         IN  RunMerge(MergeStatement(db, k, source, canonical_listing_id,
                                     canonical_hash, dup, score,
                                     reason_fp[1], reason_fp[2]),
                      done + 1, count, source, canonical_listing_id,
                      canonical_hash, dups, score, reason_fp)

TransactionKeepsPartialWork(db, work, raised) == work

\* `with self.conn:` commits the work when the block ends and rolls it
\* back when the block raises
Transaction(db, work, raised) == IF raised THEN db ELSE work

\* merge_duplicate_group.  fail_at = 0: no statement fails; fail_at = n: the
\* n-th statement of the transaction raises.  The outcome holds the return
\* value (when nothing raised), the database afterwards, and whether the
\* transaction had changed anything when it raised.
merge_duplicate_group(db, source, canonical_listing_id, duplicate_listing_ids, score, reason, entity_fingerprint, fail_at) ==
    LET dups  == EffectiveDuplicates(canonical_listing_id, duplicate_listing_ids)
        total == StatementsPerDuplicate * Len(dups)
        canonical_hash == StoredHash(db.listings, source, canonical_listing_id)
        raised == fail_at \in 1..total
        work  == RunMerge(db, 0, IF raised THEN fail_at - 1 ELSE total, source,
                          canonical_listing_id, canonical_hash, dups, score,
                          <<reason, entity_fingerprint>>)
    IN  IF duplicate_listing_ids = <<>> \/ dups = <<>>
        THEN [raised |-> FALSE, merged |-> 0, db |-> db, dirty |-> FALSE]
        ELSE [raised |-> raised,
              merged |-> IF raised THEN 0 ELSE Len(dups),
              db     |-> Transaction(db, work, raised),
              dirty  |-> raised /\ work # db]

\* ------------------------------------------------------------------------
\* dedup_cleanup.py
\* ------------------------------------------------------------------------

\* get_all_listings: the rows of the source, newest first (positions)
get_all_listings(rows, source) ==
    SeqOfSetDesc({p \in Positions(rows) : Catalog[rows[p]].source = source})

\* plan_cleanup recomputes the fingerprint of every row
Fingerprints == [i \in CatalogIdx |-> build_entity_fingerprint(Catalog[i])]

RECURSIVE SeqOfSetAsc(_)
SeqOfSetAsc(S) ==
    IF S = {} THEN <<>>
    ELSE LET m == CHOOSE x \in S : \A y \in S : x <= y
         IN  <<m>> \o SeqOfSetAsc(S \ {m})

AdjacentForwardOnly(rows, items, threshold, i) ==
    {j \in 1..Len(items) :
        j > i /\ ScoreTable[rows[items[i]]][rows[items[j]]].score >= threshold}

\* adj[i]: the score of a pair is computed once, lower index first
Adjacent(rows, items, threshold, i) ==
    {j \in 1..Len(items) :
        /\ j # i
        /\ LET lo == IF i < j THEN i ELSE j
               hi == IF i < j THEN j ELSE i
           IN  ScoreTable[rows[items[lo]]][rows[items[hi]]].score >= threshold}

RECURSIVE Visit(_, _, _, _, _, _)
\* the while loop: pop the last index of the stack, skip it when seen,
\* else add it to the component and push its neighbours (a set of small
\* ints iterates in increasing order)
Visit(rows, items, threshold, stack, seen, component) ==
    IF stack = <<>> THEN [seen |-> seen, component |-> component]
    ELSE LET idx  == stack[Len(stack)]
             rest == SubSeq(stack, 1, Len(stack) - 1)
         IN  IF idx \in seen
             THEN Visit(rows, items, threshold, rest, seen, component)
             ELSE Visit(rows, items, threshold,
                        rest \o SeqOfSetAsc(Adjacent(rows, items, threshold, idx)),
                        seen \cup {idx}, Append(component, items[idx]))

RECURSIVE ComponentsFromEveryItem(_, _, _, _, _)
\* a search that starts from every item and forgets what it has seen
ComponentsFromEveryItem(rows, items, threshold, i, seen) ==
    IF i > Len(items) THEN <<>>
    ELSE <<Visit(rows, items, threshold, <<i>>, {}, <<>>).component>>
            \o ComponentsFromEveryItem(rows, items, threshold, i + 1, seen)

RECURSIVE Components(_, _, _, _, _)
Components(rows, items, threshold, i, seen) ==
    IF i > Len(items) THEN <<>>
    ELSE IF i \in seen THEN Components(rows, items, threshold, i + 1, seen)
    ELSE LET v == Visit(rows, items, threshold, <<i>>, seen, <<>>)
         IN  <<v.component>> \o Components(rows, items, threshold, i + 1, v.seen)

\* items is a sequence of row positions; the result is the sequence of
\* components, each a sequence of row positions
_connected_components(rows, items, threshold) ==
    IF Len(items) <= 1 THEN <<items>>
    ELSE Components(rows, items, threshold, 1, {})

RECURSIVE BucketKeys(_, _)
\* the fingerprints of the rows in the order the dict first saw them
BucketKeys(rows, items) ==
    IF items = <<>> THEN <<>>
    ELSE LET fp   == Fingerprints[rows[Head(items)]]
             rest == BucketKeys(rows, Tail(items))
         IN  IF fp = NoText THEN rest
             ELSE <<fp>> \o FilterSeq(rest, {x \in {rest[k] : k \in 1..Len(rest)} : x # fp})

Bucket(rows, items, fp) ==
    FilterSeq(items, {p \in Positions(rows) : Fingerprints[rows[p]] = fp})

\* a loop that keeps the score of the last duplicate it meets
TopScoreOfLast(rows, canonical, others, top) ==
    IF others = <<>> THEN top
    ELSE [score  |-> ScoreTable[rows[canonical]][rows[others[Len(others)]]].score,
          reason |-> ScoreTable[rows[canonical]][rows[others[Len(others)]]].reason]

RECURSIVE TopScore(_, _, _, _)
\* the loop over the component: a later item replaces the top when it
\* scores at least as high
TopScore(rows, canonical, others, top) ==
    IF others = <<>> THEN top
    ELSE TopScore(rows, canonical, Tail(others),
             IF ScoreTable[rows[canonical]][rows[Head(others)]].score >= top.score
             THEN [score  |-> ScoreTable[rows[canonical]][rows[Head(others)]].score,
                   reason |-> ScoreTable[rows[canonical]][rows[Head(others)]].reason]
             ELSE top)

\* the component as dicts, and their listing ids
ComponentDicts(rows, component) ==
    [k \in 1..Len(component) |-> RowAt(rows, component[k])]

ComponentIds(rows, component) ==
    [k \in 1..Len(component) |-> Catalog[rows[component[k]]].listing_id]

\* CleanupPlan(...): others are the members whose id is not the canonical's
CleanupPlan(rows, fingerprint, canonical_id, others, top) ==
    IF others = <<>> THEN <<>>
    ELSE <<[entity_fingerprint    |-> fingerprint,
            canonical_listing_id  |-> canonical_id,
            duplicate_listing_ids |->
                [k \in 1..Len(others) |-> Catalog[rows[others[k]]].listing_id],
            score                 |-> top.score,
            reason                |-> top.reason]>>

\* the duplicates of the canonical record and the top score among them
PlanAround(rows, fingerprint, component, canonical_id, others) ==
    CleanupPlan(rows, fingerprint, canonical_id, others,
        TopScore(rows,
                 CHOOSE p \in {component[k] : k \in 1..Len(component)} :
                     Catalog[rows[p]].listing_id = canonical_id,
                 others, [score |-> 0, reason |-> <<"cleanup">>]))

\* a plan that lists every member of the component as a duplicate
PlanForWholeComponent(rows, fingerprint, component, canonical_id) ==
    PlanAround(rows, fingerprint, component, canonical_id, component)

PlanFor(rows, fingerprint, component, canonical_id) ==
    PlanAround(rows, fingerprint, component, canonical_id,
        FilterSeq(component, {p \in Positions(rows) :
            Catalog[rows[p]].listing_id # canonical_id}))

\* the plan of one component, or nothing
ComponentPlan(db, source, fingerprint, component) ==
    IF Len(component) <= 1 THEN <<>>
    ELSE PlanFor(db.listings, fingerprint, component,
            choose_canonical_listing(
                ComponentDicts(db.listings, component),
                get_relation_counts(db, source,
                    ComponentIds(db.listings, component))).listing_id)

RECURSIVE ConcatMap(_, _, _, _)
ConcatMap(db, source, fingerprint, components) ==
    IF components = <<>> THEN <<>>
    ELSE ComponentPlan(db, source, fingerprint, Head(components))
            \o ConcatMap(db, source, fingerprint, Tail(components))

RECURSIVE BucketPlans(_, _, _, _, _)
BucketPlans(db, source, threshold, all, keys) ==
    IF keys = <<>> THEN <<>>
    ELSE LET items == Bucket(db.listings, all, Head(keys))
             here == IF Len(items) < 2 THEN <<>>
                     ELSE ConcatMap(db, source, Head(keys),
                              _connected_components(db.listings, items, threshold))
         IN  here \o BucketPlans(db, source, threshold, all, Tail(keys))

plan_cleanup(db, source, threshold) ==
    LET all == get_all_listings(db.listings, source)
    IN  BucketPlans(db, source, threshold, all, BucketKeys(db.listings, all))

NoReport(dry_run, plans) ==
    [dry_run                 |-> dry_run,
     groups                  |-> Len(plans),
     projected_merge_records |->
         LET RECURSIVE Sum(_)
             Sum(ps) == IF ps = <<>> THEN 0
                        ELSE Len(Head(ps).duplicate_listing_ids) + Sum(Tail(ps))
         IN  Sum(plans),
     merged_groups           |-> 0,
     merged_records          |-> 0,
     cleanup_failed          |-> 0,
     plans                   |-> plans,
     validation              |-> <<>>]

\* the report after a merge has returned or raised
Counted(report, o) ==
    IF o.raised
    THEN [report EXCEPT !.cleanup_failed = @ + 1]
    ELSE [report EXCEPT
             !.merged_groups  = @ + (IF o.merged > 0 THEN 1 ELSE 0),
             !.merged_records = @ + o.merged]

\* merge_duplicate_group for one plan; failing: the merge raises on the
\* last statement of its transaction
MergePlan(db, source, plan, failing) ==
    merge_duplicate_group(db, source, plan.canonical_listing_id,
        plan.duplicate_listing_ids, <<plan.score>>,
        <<"cleanup:">> \o plan.reason, plan.entity_fingerprint,
        IF failing
        THEN StatementsPerDuplicate * Len(plan.duplicate_listing_ids)
        ELSE 0)

RECURSIVE ApplyPlans(_, _, _, _, _, _)
\* a loop that ends at the first merge that raises
AfterMergeAbortsOnFailure(source, plans, k, failing, report, o) ==
    IF o.raised THEN [db |-> o.db, report |-> Counted(report, o)]
    ELSE ApplyPlans(o.db, source, plans, k + 1, failing, Counted(report, o))

\* the rest of the loop after the merge of plan k has ended with o
AfterMerge(source, plans, k, failing, report, o) ==
    ApplyPlans(o.db, source, plans, k + 1, failing, Counted(report, o))

\* the loop over the plans; failing is the set of plan numbers whose merge
\* raises
ApplyPlans(db, source, plans, k, failing, report) ==
    IF k > Len(plans) THEN [db |-> db, report |-> report]
    ELSE AfterMerge(source, plans, k, failing, report,
                    MergePlan(db, source, plans[k], k \in failing))

\* report["validation"] = storage.validate_relation_integrity()
Validated(done) ==
    [db     |-> done.db,
     report |-> [done.report EXCEPT
                    !.validation = <<validate_relation_integrity(done.db)>>]]

\* a run that applies the plans whatever dry_run says
RunPlansIgnoringDryRun(db, source, dry_run, failing, plans) ==
    Validated(ApplyPlans(db, source, plans, 1, failing, NoReport(dry_run, plans)))

\* run_cleanup once the plans are cut to the batch size
RunPlans(db, source, dry_run, failing, plans) ==
    IF dry_run THEN [db |-> db, report |-> NoReport(dry_run, plans)]
    ELSE Validated(ApplyPlans(db, source, plans, 1, failing,
                              NoReport(dry_run, plans)))

\* a run over every plan, whatever the batch size
RunCleanupUncapped(db, source, dry_run, threshold, batch_size, failing) ==
    RunPlans(db, source, dry_run, failing, plan_cleanup(db, source, threshold))

\* run_cleanup: the report and the database afterwards
run_cleanup(db, source, dry_run, threshold, batch_size, failing) ==
    RunPlans(db, source, dry_run, failing,
             Take(plan_cleanup(db, source, threshold), Max(batch_size, 1)))

\* ------------------------------------------------------------------------
\* The state machine
\* ------------------------------------------------------------------------

\* model bounds
MaxRows   == 2
MaxStored == 3
MaxAudit  == 2
MaxRelOps == 2
MaxCleanupRelOps == 3
MaxDups   == 2
MaxPlans  == 2

\* inputs
StrictThreshold == 95 * 100
Thresholds == {DEFAULT_DEDUP_THRESHOLD, StrictThreshold}
RelationKeys == {<<"591", "a">>, <<"591", "b">>, <<"yc", "a">>}
\* the ids a caller lists: the ids of the stored rows and the empty id
MergeIds == {"", "a", "b", "c"}
DuplicateLists == UNION {[1..n -> MergeIds] : n \in 0..MaxDups}
MergeSource == "591"
MergeCanonicals == {"a"}
\* the statements of a transaction of `total` statements that the model
\* lets fail: for each duplicate its first copy, its first delete and its
\* audit insert; 0 is the run in which nothing fails
FailPoints(total) ==
    {0} \cup {k \in 1..total : (k - 1) % StatementsPerDuplicate \in {0, 3, 7}}

\* the tables a store opened on an existing database can hold: the rows
\* that plain inserts of catalogue entries leave, in insertion order
RECURSIVE Insertable(_)
Insertable(rows) ==
    \/ rows = <<>>
    \/ LET before == SubSeq(rows, 1, Len(rows) - 1)
           entry  == Catalog[rows[Len(rows)]]
       IN  /\ Insertable(before)
           /\ ~HasListing(before, entry.source, entry.listing_id)
           /\ entry.raw_hash = "" \/ RowsByHash(before, entry.raw_hash) = {}

StoredTables(entries) ==
    {rows \in UNION {[1..n -> entries] : n \in 0..MaxStored} : Insertable(rows)}

Commit(db) ==
    /\ listings' = db.listings
    /\ notifications_sent' = db.notifications_sent
    /\ listings_read' = db.listings_read
    /\ favorites' = db.favorites
    /\ dedup_audit' = db.dedup_audit

\* the callers whose gate calls run statement by statement, and the
\* listings they bring: A, B, and the other flat posted under A's key
Callers == {1, 2}
RaceEntries == {1, 2, 4}

\* a caller outside the gate, holding the batch cache of its run
NoCall(cache) == [pc |-> "idle", cache |-> cache]

\* the caller holds no result
Idle == last.op = "idle"

\* no /dedupall command is running
NoCommand == [pc |-> "idle"]

\* the bot after post_init: _pipeline_running = False, and _ensure_scheduler
\* has scheduled the pipeline job unless the scheduler is paused
Started(paused) ==
    [_pipeline_running |-> FALSE,
     paused            |-> paused,
     jobs              |-> IF paused THEN 0 ELSE 1,
     dedupall          |-> NoCommand,
     cmd_run           |-> FALSE,
     scheduled         |-> 0]

\* Storage(db_path) on a database that holds the rows
Opened(rows) ==
    /\ listings = rows
    /\ notifications_sent = {}
    /\ listings_read = {}
    /\ favorites = {}
    /\ dedup_audit = <<>>
    /\ batch_cache = <<>>
    /\ relOps = 0
    /\ last = [op |-> "idle"]
    /\ calls = [p \in Callers |-> NoCall(<<>>)]
    /\ bot = Started(FALSE)
    /\ chat = {}

Init == Opened(<<>>)

\* the caller has consumed the result of the last call
Return ==
    /\ ~Idle
    /\ last' = [op |-> "idle"]
    /\ UNCHANGED <<tables, batch_cache, relOps, calls, bot, chat>>

\* cmd_scrape starts every run with a fresh batch cache
StartBatch ==
    /\ Idle
    /\ batch_cache # <<>>
    /\ batch_cache' = <<>>
    /\ UNCHANGED <<tables, relOps, last, calls, bot, chat>>

\* one call of insert_listing_with_dedup with a listing of `entries`, with
\* a batch cache or not as `caches` allows, dedup enabled or not as `flags`
\* allows, on a store of at most max_rows rows
GateOf(entries, caches, flags, max_rows) ==
    /\ Idle
    /\ \E i \in entries, use_cache \in caches, dedup_enabled \in flags :
         \E o \in insert_listing_with_dedup(Db, batch_cache, use_cache, i,
                                            dedup_enabled, DEFAULT_DEDUP_THRESHOLD) :
           /\ Len(o.db.listings) <= max_rows
           /\ Len(o.db.dedup_audit) <= MaxAudit
           /\ Commit(o.db)
           /\ batch_cache' = o.cache
           /\ last' = [op |-> "insert_listing_with_dedup", listing |-> i,
                       use_cache |-> use_cache, dedup_enabled |-> dedup_enabled,
                       dedup_threshold |-> DEFAULT_DEDUP_THRESHOLD,
                       result |-> o.result, pre |-> Db, pre_cache |-> batch_cache]
           /\ UNCHANGED <<relOps, calls, bot, chat>>

Gate == GateOf(CatalogIdx, BOOLEAN, BOOLEAN, MaxRows)

RelationOp(limit, op, db, key, channel) ==
    /\ Idle
    /\ relOps < limit
    /\ relOps' = relOps + 1
    /\ Commit(db)
    /\ last' = [op |-> op, source |-> key[1], listing_id |-> key[2],
                channel |-> channel, pre |-> Db]
    /\ UNCHANGED <<batch_cache, calls, bot, chat>>

AddFavorite(limit) ==
    \E key \in RelationKeys :
        RelationOp(limit, "add_favorite", add_favorite(Db, key[1], key[2]), key, "")

RemoveFavorite(limit) ==
    \E key \in RelationKeys :
        RelationOp(limit, "remove_favorite", remove_favorite(Db, key[1], key[2]),
                   key, "")

MarkAsRead(limit) ==
    \E key \in RelationKeys :
        RelationOp(limit, "mark_as_read", mark_as_read(Db, key[1], key[2]), key, "")

RecordNotification(limit) ==
    \E key \in RelationKeys, channel \in Channels :
        RelationOp(limit, "record_notification",
                   record_notification(Db, key[1], key[2], channel), key, channel)

\* the id lists of mark_many_as_read: the lists of up to two ids of the
\* relation keys of a source
ReadLists(source) ==
    UNION {[1..n -> {key[2] : key \in {k \in RelationKeys : k[1] = source}}] :
              n \in 0..2}

MarkManyAsRead(limit) ==
    \E source \in {key[1] : key \in RelationKeys} :
        \E listing_ids \in ReadLists(source) :
            RelationOp(limit, "mark_many_as_read",
                       mark_many_as_read(Db, source, listing_ids),
                       <<source, listing_ids>>, "")

Merge ==
    /\ Idle
    /\ \E canonical_listing_id \in MergeCanonicals,
          duplicate_listing_ids \in DuplicateLists :
         \E fail_at \in FailPoints(StatementsPerDuplicate *
                Len(EffectiveDuplicates(canonical_listing_id, duplicate_listing_ids))) :
           LET o == merge_duplicate_group(Db, MergeSource, canonical_listing_id,
                        duplicate_listing_ids, <<>>, <<"cleanup_merge">>, NoText,
                        fail_at)
           IN  /\ Len(o.db.dedup_audit) <= MaxAudit
               /\ Commit(o.db)
               /\ last' = [op |-> "merge_duplicate_group",
                           source |-> MergeSource,
                           canonical_listing_id |-> canonical_listing_id,
                           duplicate_listing_ids |-> duplicate_listing_ids,
                           fail_at |-> fail_at,
                           raised |-> o.raised, dirty |-> o.dirty,
                           merged |-> o.merged, pre |-> Db]
               /\ UNCHANGED <<batch_cache, relOps, calls, bot, chat>>

RunCleanup ==
    /\ Idle
    /\ \E dry_run \in BOOLEAN, threshold \in Thresholds, batch_size \in 0..MaxPlans,
          failing \in SUBSET (1..MaxPlans) :
         \E o \in {run_cleanup(Db, MergeSource, dry_run, threshold, batch_size, failing)} :
             /\ failing \subseteq 1..o.report.groups
             /\ dry_run => failing = {}
             /\ Len(o.db.dedup_audit) <= MaxAudit
             /\ Commit(o.db)
             /\ last' = [op |-> "run_cleanup", source |-> MergeSource,
                         threshold |-> threshold, batch_size |-> batch_size,
                         failing |-> failing, report |-> o.report, pre |-> Db]
             /\ UNCHANGED <<batch_cache, relOps, calls, bot, chat>>

Validate ==
    /\ Idle
    /\ last' = [op |-> "validate_relation_integrity",
                counts |-> validate_relation_integrity(Db), pre |-> Db]
    /\ UNCHANGED <<tables, batch_cache, relOps, calls, bot, chat>>

Next ==
    \/ Return
    \/ StartBatch
    \/ Gate
    \/ AddFavorite(MaxRelOps)
    \/ RemoveFavorite(MaxRelOps)
    \/ MarkAsRead(MaxRelOps)
    \/ RecordNotification(MaxRelOps)
    \/ Merge
    \/ RunCleanup
    \/ Validate

Spec == Init /\ [][Next]_vars

\* the gate alone, from an empty store
NextGate == Return \/ StartBatch \/ Gate

SpecGate == Init /\ [][NextGate]_vars

\* merges on a store that already holds listings: one row of the other
\* source, then the listings b, a, c and the one without an id
MergeTable == <<6, 2, 1, 3, 7>>

InitMerge == \E n \in 2..Len(MergeTable) : Opened(SubSeq(MergeTable, 1, n))

NextMerge ==
    \/ Return
    \/ AddFavorite(MaxRelOps)
    \/ RemoveFavorite(MaxRelOps)
    \/ MarkAsRead(MaxRelOps)
    \/ RecordNotification(MaxRelOps)
    \/ Merge
    \/ Validate

SpecMerge == InitMerge /\ [][NextMerge]_vars

\* cleanup runs on a store that already holds listings
CleanupEntries == {1, 2, 3}

InitCleanup == \E rows \in StoredTables(CleanupEntries) : Opened(rows)

NextCleanup ==
    \/ Return
    \/ AddFavorite(MaxCleanupRelOps)
    \/ RemoveFavorite(MaxCleanupRelOps)
    \/ MarkAsRead(MaxCleanupRelOps)
    \/ RecordNotification(MaxCleanupRelOps)
    \/ RunCleanup

SpecCleanup == InitCleanup /\ [][NextCleanup]_vars

\* cleanup runs on the stores that hold A, B and G, inserted in any order
OrderEntries == {1, 2, 9}

InitOrder == \E rows \in StoredTables(OrderEntries) : Opened(rows)

SpecOrder == InitOrder /\ [][NextCleanup]_vars

\* cleanup runs on the stores that hold A, B and the listing that was
\* scraped without an id
PassEntries == {1, 2, 7}

InitPass == \E rows \in StoredTables(PassEntries) : Opened(rows)

SpecPass == InitPass /\ [][NextCleanup]_vars

\* a caller enters insert_listing_with_dedup with its batch cache.  raced
\* records that both callers were between the check of the key and the
\* INSERT with the same key at some moment of the call; audit_rows are the
\* rows of dedup_audit that the call has written
CallGate(p, entries, flags) ==
    /\ calls[p].pc = "idle"
    /\ \E i \in entries, dedup_enabled \in flags :
         calls' = [calls EXCEPT ![p] =
                      [pc |-> "existing_id", listing |-> i,
                       dedup_enabled |-> dedup_enabled,
                       cache |-> calls[p].cache,
                       cache_before |-> calls[p].cache,
                       raced |-> FALSE, audit_rows |-> <<>>,
                       result |-> <<>>]]
    /\ UNCHANGED <<tables, batch_cache, relOps, last, bot, chat>>

Checked(p) == calls[p].pc \in {"existing_hash", "dedup", "insert"}

SameKey(i, j) ==
    /\ Normalized[i].source = Normalized[j].source
    /\ Normalized[i].listing_id = Normalized[j].listing_id

\* the rows a statement has appended to a table
WrittenRows(before, after) == SubSeq(after, Len(before) + 1, Len(after))

\* the call of p has ended with decision o
Decided(p, o) ==
    /\ Len(o.db.dedup_audit) <= MaxAudit
    /\ Commit(o.db)
    /\ calls' = [calls EXCEPT ![p].pc = "done", ![p].result = <<o.result>>,
                              ![p].audit_rows = WrittenRows(dedup_audit,
                                                            o.db.dedup_audit)]

\* the SELECT by key of caller p
StepExistingId(p) ==
    /\ calls[p].pc = "existing_id"
    /\ IF KeyDecisions(Db, calls[p].listing) # {}
       THEN \E o \in KeyDecisions(Db, calls[p].listing) : Decided(p, o)
       ELSE /\ calls' = [q \in Callers |->
                   IF q = p
                   THEN [calls[p] EXCEPT
                           !.pc = "existing_hash",
                           !.raced = \E r \in Callers \ {p} :
                                        /\ Checked(r)
                                        /\ SameKey(calls[r].listing, calls[p].listing)]
                   ELSE IF Checked(q) /\ SameKey(calls[q].listing, calls[p].listing)
                        THEN [calls[q] EXCEPT !.raced = TRUE]
                        ELSE calls[q]]
            /\ UNCHANGED tables
    /\ UNCHANGED <<batch_cache, relOps, last, bot, chat>>

\* the SELECT by raw_hash of caller p
StepExistingHash(p) ==
    /\ calls[p].pc = "existing_hash"
    /\ IF HashDecisions(Db, calls[p].listing) # {}
       THEN \E o \in HashDecisions(Db, calls[p].listing) : Decided(p, o)
       ELSE /\ calls' = [calls EXCEPT ![p].pc = "dedup"]
            /\ UNCHANGED tables
    /\ UNCHANGED <<batch_cache, relOps, last, bot, chat>>

\* the candidate query and the scoring of caller p
StepDedup(p) ==
    /\ calls[p].pc = "dedup"
    /\ \E decisions \in {EntityDecision(Db, calls[p].listing,
                              calls[p].dedup_enabled, DEFAULT_DEDUP_THRESHOLD,
                              BestCandidate(Db, calls[p].cache, calls[p].listing))} :
         IF decisions # {}
         THEN \E o \in decisions : Decided(p, o)
         ELSE /\ calls' = [calls EXCEPT ![p].pc = "insert"]
              /\ UNCHANGED tables
    /\ UNCHANGED <<batch_cache, relOps, last, bot, chat>>

\* the INSERT of caller p
StepInsert(p) ==
    /\ calls[p].pc = "insert"
    /\ \E o \in {InsertDecision(Db, calls[p].cache, calls[p].listing)} :
         /\ Len(o.db.listings) <= MaxRows
         /\ Commit(o.db)
         /\ calls' = [calls EXCEPT ![p].pc = "done", ![p].result = <<o.result>>,
                                   ![p].cache = o.cache,
                                   ![p].audit_rows = WrittenRows(dedup_audit,
                                                         o.db.dedup_audit)]
    /\ UNCHANGED <<batch_cache, relOps, last, bot, chat>>

\* the caller has consumed what its call returned; it goes on with the
\* next listing of the run, or the run ends and the next starts with a
\* fresh batch cache
ReturnCall(p) ==
    /\ calls[p].pc = "done"
    /\ \E cache \in {calls[p].cache, <<>>} :
         calls' = [calls EXCEPT ![p] = NoCall(cache)]
    /\ UNCHANGED <<tables, batch_cache, relOps, last, bot, chat>>

\* the statements of the gate calls under way
GateSteps ==
    \/ \E p \in Callers : StepExistingId(p)
    \/ \E p \in Callers : StepExistingHash(p)
    \/ \E p \in Callers : StepDedup(p)
    \/ \E p \in Callers : StepInsert(p)
    \/ \E p \in Callers : ReturnCall(p)

NextRace ==
    \/ \E p \in Callers : CallGate(p, RaceEntries, BOOLEAN)
    \/ GateSteps

SpecRace == Init /\ [][NextRace]_vars

\* gate calls that run statement by statement next to merges and cleanup
\* runs; the store holds B, and the callers bring A with dedup disabled
StoreTable == <<2>>
StoreEntries == {1}

InitStore == Opened(StoreTable)

NextStore ==
    \/ \E p \in Callers : CallGate(p, StoreEntries, {FALSE})
    \/ GateSteps
    \/ Return
    \/ Merge
    \/ RunCleanup

SpecStore == InitStore /\ [][NextStore]_vars

\* cleanup runs on a store that holds two groups of duplicates: the flat of
\* entries 4 and 8, and the listings B and C
BatchTable == <<4, 8, 2, 3>>

InitBatch == Opened(BatchTable)

NextBatch ==
    \/ Return
    \/ AddFavorite(MaxRelOps)
    \/ RemoveFavorite(MaxRelOps)
    \/ MarkAsRead(MaxRelOps)
    \/ RecordNotification(MaxRelOps)
    \/ RunCleanup

SpecBatch == InitBatch /\ [][NextBatch]_vars

\* a store filled from empty by gate calls with dedup enabled only, each
\* batch with its cache or without one, and the cleanup runs on it; the
\* callers bring A, B, C, G and the listing without an id, which share a
\* bucket
FillEntries == {1, 2, 3, 7, 9}
MaxFillRows == 3

NextFill ==
    \/ Return
    \/ StartBatch
    \/ GateOf(FillEntries, BOOLEAN, {TRUE}, MaxFillRows)
    \/ RunCleanup

SpecFill == Init /\ [][NextFill]_vars

\* every operation of the store that writes a listing or a relation row,
\* from an empty store; the callers bring A and B
OperationEntries == {1, 2}
MaxOperationRelOps == 1

NextOperations ==
    \/ Return
    \/ GateOf(OperationEntries, {FALSE}, BOOLEAN, MaxRows)
    \/ AddFavorite(MaxOperationRelOps)
    \/ RemoveFavorite(MaxOperationRelOps)
    \/ MarkAsRead(MaxOperationRelOps)
    \/ MarkManyAsRead(MaxOperationRelOps)
    \/ RecordNotification(MaxOperationRelOps)
    \/ Merge
    \/ RunCleanup

SpecOperations == Init /\ [][NextOperations]_vars

\* the functions of dedup.py, called on listings a caller can bring, next
\* to the gate that scores with them.
\* The addresses are house numbers around a lane sign, up to MaxAddressLen
\* characters long, and two longer ones that have two characters of nine
\* in common
MaxAddressLen == 3
ScoreAddresses ==
    UNION {[1..n -> {"1", "2", "Lane"}] : n \in 2..MaxAddressLen}
        \cup {<<"1", "1", "1", "1">>, <<"1", "1", "2", "2", "Lane">>}

\* what the two listings of a call have besides their addresses: the same
\* flat twice; another price and size; a shared community name with
\* another price; another district and another layout
ScoreProfiles ==
    {<<BaseListing, BaseListing>>,
     <<BaseListing,
       [BaseListing EXCEPT !.price = <<10400>>, !.size_ping = <<3100>>]>>,
     <<[BaseListing EXCEPT !.community_name = <<"Yuan">>],
       [BaseListing EXCEPT !.community_name = <<"Yuan">>, !.price = <<10800>>]>>,
     <<BaseListing,
       [BaseListing EXCEPT !.district = <<"Xi", "Zhi", "Qu">>,
                           !.room = <<"2", "Fang", "1", "Ting", "1", "Wei">>]>>}

\* the default tolerances and a wider price, narrower size pair
ScoreTolerances ==
    {<<DEFAULT_PRICE_TOLERANCE, DEFAULT_SIZE_TOLERANCE>>, <<100, 40>>}

\* the functions of dedup.py read no table: the model calls them on the
\* store as it is opened
Unused == Idle /\ listings = <<>> /\ batch_cache = <<>>

\* score_duplicate(left, right, price_tolerance=..., size_tolerance=...)
ScoreDuplicate ==
    /\ Unused
    /\ \E a \in ScoreAddresses, b \in ScoreAddresses,
          profile \in ScoreProfiles, tolerance \in ScoreTolerances :
         \E left \in {[profile[1] EXCEPT !.address = a]},
            right \in {[profile[2] EXCEPT !.address = b, !.listing_id = "b"]} :
           last' = [op |-> "score_duplicate", left |-> left, right |-> right,
                    price_tolerance |-> tolerance[1],
                    size_tolerance |-> tolerance[2],
                    result |-> score_duplicate(left, right,
                                               tolerance[1], tolerance[2])]
    /\ UNCHANGED <<tables, batch_cache, relOps, calls, bot, chat>>

\* ------------------------------------------------------------------------
\* matcher.py and notifier.py: one notification run
\* ------------------------------------------------------------------------

MAX_BATCH_SIZE == 10
DefaultChannel == "telegram"

\* get_unnotified_listings: the rows without a notification row on the
\* channel (positions, in table order)
get_unnotified_listings(db, channel) ==
    SeqOfSetAsc({p \in Positions(db.listings) :
        <<Catalog[db.listings[p]].source, Catalog[db.listings[p]].listing_id, channel>>
            \notin db.notifications_sent})

\* get_unread_listings: the rows without a read row, or whose read row
\* holds another content hash (positions, in table order).  In SQL a
\* comparison with NULL is not true, so a row whose hash or whose read
\* row's hash is NULL is not returned for its hash
get_unread_listings(db) ==
    SeqOfSetAsc({p \in Positions(db.listings) :
        \/ ReadRowsOf(db.listings_read, Catalog[db.listings[p]].source,
                      Catalog[db.listings[p]].listing_id) = {}
        \/ \E r \in ReadRowsOf(db.listings_read, Catalog[db.listings[p]].source,
                               Catalog[db.listings[p]].listing_id) :
              /\ r.raw_hash # <<>>
              /\ Catalog[db.listings[p]].raw_hash # ""
              /\ r.raw_hash # <<Catalog[db.listings[p]].raw_hash>>})

\* the loop of send_notifications from item n on: record_notification for
\* every listing whose message was sent. sent[n] is whether the send of
\* item n succeeded
RECURSIVE SendLoop(_, _, _, _)
SendLoop(db, batch, sent, n) ==
    IF n > Len(batch) THEN db
    ELSE SendLoop(IF sent[n]
                  THEN record_notification(db, batch[n][1], batch[n][2], DefaultChannel)
                  ELSE db,
                  batch, sent, n + 1)

\* send_notifications(config, storage, listings): matched are the
\* (source, listing_id) pairs of the listings
send_notifications(db, matched, sent) ==
    SendLoop(db, Take(matched, MAX_BATCH_SIZE), sent, 1)

\* find_matching_listings and send_notifications, as cmd_run calls them:
\* matched are the unnotified rows that pass the filters of the config
Notify ==
    /\ Idle
    /\ \E matched \in SUBSET Positions(listings) :
         \E rows \in {FilterSeq(get_unnotified_listings(Db, DefaultChannel), matched)} :
           \E sent \in [1..Len(rows) -> BOOLEAN] :
             \E batch \in {[n \in 1..Len(rows) |->
                              <<Catalog[listings[rows[n]]].source,
                                Catalog[listings[rows[n]]].listing_id>>]} :
               /\ rows # <<>>
               /\ Commit(send_notifications(Db, batch, sent))
               /\ last' = [op |-> "send_notifications", listings |-> batch,
                           sent |-> sent,
                           sent_count |-> Cardinality({n \in 1..Len(rows) : sent[n]}),
                           pre |-> Db]
               /\ chat' = chat \cup {batch[n] : n \in {m \in 1..Len(batch) :
                                                        m <= MAX_BATCH_SIZE /\ sent[m]}}
    /\ UNCHANGED <<batch_cache, relOps, calls, bot>>

\* notification runs between scrapes and merges, on a store that holds A
\* and B
InitNotify == Opened(<<1, 2>>)

NextNotify ==
    \/ Return
    \/ Gate
    \/ Merge
    \/ Notify

SpecNotify == InitNotify /\ [][NextNotify]_vars

\* ------------------------------------------------------------------------
\* bot.py: the scheduler and /dedupall
\* ------------------------------------------------------------------------

\* the loop of cmd_dedupall that stops on every round
StopsOnlyWhenNothingRemains(report, remaining_groups) ==
    remaining_groups = 0

\* the three break statements of the loop of cmd_dedupall
StopsAfterRound(report, remaining_groups) ==
    \/ remaining_groups = 0
    \/ report.groups = 0 \/ report.merged_records = 0
    \/ report.cleanup_failed > 0

max_rounds == 500
AllPlans == 1000000

\* /dedupall [batch_size]: no argument (the setting, 200 by default), a
\* positive number, or an argument the command rejects
DedupAllArgs == {<<>>, <<1>>, <<0>>}
DefaultCleanupBatchSize == 200

\* _ensure_scheduler: the pipeline jobs are removed, and one is scheduled
\* unless the scheduler is paused
_ensure_scheduler(b) == [b EXCEPT !.jobs = IF b.paused THEN 0 ELSE 1]

\* a handler of the bot runs to its end before the next one starts: no
\* /dedupall and no /run is waiting for its work
NoHandler == bot.dedupall.pc = "idle" /\ ~bot.cmd_run

\* the callbacks of the pipeline job that run at a time
MaxScheduled == 1

\* cmd_pause
Pause ==
    /\ NoHandler
    /\ ~bot.paused
    /\ bot' = [bot EXCEPT !.paused = TRUE, !.jobs = 0]
    /\ UNCHANGED <<tables, batch_cache, relOps, last, calls, chat>>

\* cmd_resume
Resume ==
    /\ NoHandler
    /\ bot.paused
    /\ bot' = _ensure_scheduler([bot EXCEPT !.paused = FALSE])
    /\ UNCHANGED <<tables, batch_cache, relOps, last, calls, chat>>

\* the pipeline job fires: _scheduled_pipeline calls _run_pipeline, which
\* sets the flag without reading it, while a handler may be waiting
PipelineStarts ==
    /\ bot.jobs > 0
    /\ bot.scheduled < MaxScheduled
    /\ bot' = [bot EXCEPT !._pipeline_running = TRUE, !.scheduled = @ + 1]
    /\ UNCHANGED <<tables, batch_cache, relOps, last, calls, chat>>

\* the pipeline of a job callback ends: the finally clause of
\* _run_pipeline, or its return on an incomplete configuration, clears
\* the flag
PipelineEnds ==
    /\ bot.scheduled > 0
    /\ bot' = [bot EXCEPT !._pipeline_running = FALSE, !.scheduled = @ - 1]
    /\ UNCHANGED <<tables, batch_cache, relOps, last, calls, chat>>

\* cmd_run: the command returns when the flag is set; else it awaits
\* _run_pipeline, which sets the flag
RunEnter ==
    /\ Idle
    /\ NoHandler
    /\ IF bot._pipeline_running
       THEN /\ last' = [op |-> "cmd_run", outcome |-> "busy", before |-> bot]
            /\ UNCHANGED bot
       ELSE /\ bot' = [bot EXCEPT !._pipeline_running = TRUE, !.cmd_run = TRUE]
            /\ UNCHANGED last
    /\ UNCHANGED <<tables, batch_cache, relOps, calls, chat>>

\* the pipeline of /run ends: _run_pipeline clears the flag and the
\* command replies with the result
RunEnds ==
    /\ bot.cmd_run
    /\ Idle
    /\ bot' = [bot EXCEPT !._pipeline_running = FALSE, !.cmd_run = FALSE]
    /\ last' = [op |-> "cmd_run", outcome |-> "done", before |-> bot]
    /\ UNCHANGED <<tables, batch_cache, relOps, calls, chat>>

\* cmd_dedupall up to the try statement: the command returns when a task
\* runs or the argument is no positive number; else it removes the
\* pipeline jobs unless the scheduler is paused, and sets the flag
DedupAllEnter ==
    /\ Idle
    /\ NoHandler
    /\ \E args \in DedupAllArgs, threshold \in Thresholds :
         IF bot._pipeline_running
         THEN /\ last' = [op |-> "cmd_dedupall", outcome |-> "busy", before |-> bot]
              /\ UNCHANGED bot
         ELSE IF args # <<>> /\ args[1] <= 0
         THEN /\ last' = [op |-> "cmd_dedupall", outcome |-> "usage", before |-> bot]
              /\ UNCHANGED bot
         ELSE /\ bot' = [bot EXCEPT
                           !.jobs = IF bot.paused THEN @ ELSE 0,
                           !._pipeline_running = TRUE,
                           !.dedupall =
                               [pc            |-> "initial",
                                batch_size    |-> IF args = <<>>
                                                  THEN DefaultCleanupBatchSize
                                                  ELSE args[1],
                                threshold     |-> threshold,
                                paused_before |-> bot.paused,
                                rounds        |-> 0,
                                total_merged  |-> 0,
                                total_failed  |-> 0,
                                report        |-> <<>>,
                                remaining_groups |-> <<>>,
                                outcome       |-> "done"]]
              /\ UNCHANGED last
    /\ UNCHANGED <<tables, batch_cache, relOps, calls, chat>>

\* the dry run before the loop and the reply; raised: one of them raises
DedupAllInitial ==
    /\ bot.dedupall.pc = "initial"
    /\ \E raised \in BOOLEAN :
         bot' = [bot EXCEPT !.dedupall.pc = IF raised THEN "except" ELSE "loop"]
    /\ UNCHANGED <<tables, batch_cache, relOps, last, calls, chat>>

\* the frame after a round: the totals, the report and what remains
AfterRound(frame, report, remaining_groups) ==
    [frame EXCEPT
        !.total_merged     = @ + report.merged_records,
        !.total_failed     = @ + report.cleanup_failed,
        !.report           = <<[groups         |-> report.groups,
                                merged_records |-> report.merged_records,
                                cleanup_failed |-> report.cleanup_failed]>>,
        !.remaining_groups = <<remaining_groups>>,
        !.pc               = IF StopsAfterRound(report, remaining_groups)
                             THEN "final" ELSE "loop"]

\* one pass of the while loop: the test of rounds, the run that applies
\* the plans, and the dry run that counts what remains. Either the run
\* raises before it changes anything, or it returns, and then the reply
\* after the runs may raise (raised)
DedupAllRound ==
    /\ bot.dedupall.pc = "loop"
    /\ IF bot.dedupall.rounds >= max_rounds
       THEN /\ bot' = [bot EXCEPT !.dedupall.pc = "final"]
            /\ UNCHANGED tables
       ELSE \/ /\ bot' = [bot EXCEPT !.dedupall.rounds = @ + 1,
                                      !.dedupall.pc = "except"]
               /\ UNCHANGED tables
            \/ \E failing \in SUBSET (1..MaxPlans), raised \in BOOLEAN :
                 \E o \in {run_cleanup(Db, MergeSource, FALSE, bot.dedupall.threshold,
                                        bot.dedupall.batch_size, failing)} :
                   /\ failing \subseteq 1..o.report.groups
                   /\ Commit(o.db)
                   /\ bot' = [bot EXCEPT !.dedupall =
                         [AfterRound([@ EXCEPT !.rounds = @ + 1], o.report,
                              run_cleanup(o.db, MergeSource, TRUE,
                                  bot.dedupall.threshold, AllPlans, {}).report.groups)
                          EXCEPT !.pc = IF raised THEN "except" ELSE @]]
    /\ UNCHANGED <<batch_cache, relOps, last, calls, chat>>

\* the last dry run and the summary; raised: one of them raises
DedupAllFinal ==
    /\ bot.dedupall.pc = "final"
    /\ \E raised \in BOOLEAN :
         bot' = [bot EXCEPT !.dedupall.pc = IF raised THEN "except" ELSE "finally"]
    /\ UNCHANGED <<tables, batch_cache, relOps, last, calls, chat>>

\* the except clause: the error is logged and reported
DedupAllExcept ==
    /\ bot.dedupall.pc = "except"
    /\ bot' = [bot EXCEPT !.dedupall.pc = "finally", !.dedupall.outcome = "failed"]
    /\ UNCHANGED <<tables, batch_cache, relOps, last, calls, chat>>

\* the finally clause: the flag is cleared and, unless the scheduler was
\* paused when the command started, _ensure_scheduler is called
DedupAllFinally ==
    /\ bot.dedupall.pc = "finally"
    /\ Idle
    /\ bot' = [(IF bot.dedupall.paused_before THEN bot ELSE _ensure_scheduler(bot))
                 EXCEPT !._pipeline_running = FALSE, !.dedupall = NoCommand]
    /\ last' = [op |-> "cmd_dedupall", outcome |-> bot.dedupall.outcome,
                frame |-> bot.dedupall, before |-> bot]
    /\ UNCHANGED <<tables, batch_cache, relOps, calls, chat>>

\* /dedupall on stores with two groups of duplicates, with one group, with
\* a group whose duplicate has no listing id, and with none
DedupAllTables == {<<4, 8, 2, 3>>, <<1, 2>>, <<1, 7>>, <<1, 4>>}

InitDedupAll == \E rows \in DedupAllTables : Opened(rows)

NextDedupAll ==
    \/ Return
    \/ Pause
    \/ Resume
    \/ PipelineStarts
    \/ PipelineEnds
    \/ DedupAllEnter
    \/ DedupAllInitial
    \/ DedupAllRound
    \/ DedupAllFinal
    \/ DedupAllExcept
    \/ DedupAllFinally

SpecDedupAll == InitDedupAll /\ [][NextDedupAll]_vars

\* the event loop resumes a command whose awaited call has returned
DedupAllStep ==
    \/ DedupAllInitial
    \/ DedupAllRound
    \/ DedupAllFinal
    \/ DedupAllExcept
    \/ DedupAllFinally

LiveDedupAll == SpecDedupAll /\ WF_vars(DedupAllStep)

\* the commands and the job of the bot on a store with one group of
\* duplicates and on one with none
ExclusiveTables == {<<1, 2>>, <<1, 4>>}

InitExclusive == \E rows \in ExclusiveTables : Opened(rows)

NextExclusive ==
    \/ Return
    \/ Pause
    \/ Resume
    \/ PipelineStarts
    \/ PipelineEnds
    \/ RunEnter
    \/ RunEnds
    \/ DedupAllEnter
    \/ DedupAllInitial
    \/ DedupAllRound
    \/ DedupAllFinal
    \/ DedupAllExcept
    \/ DedupAllFinally

SpecExclusive == InitExclusive /\ [][NextExclusive]_vars

\* every operation that writes or reads dedup_audit, on a store that holds
\* A and B: the gate, the merge, the cleanup run and the validator
InitAudit == Opened(<<1, 2>>)

NextAudit ==
    \/ Return
    \/ Gate
    \/ Merge
    \/ RunCleanup
    \/ Validate

SpecAudit == InitAudit /\ [][NextAudit]_vars

\* the texts a listing can carry in a field: up to MaxTextLen characters,
\* among them white space, punctuation, an upper-case letter, both
\* characters of the variant pair, digits and the floor suffix
MaxTextLen == 4
TextChars == {" ", "-", "A", "a", "Tai", "TAI", "1", "Lou", "Lu"}
Texts == UNION {[1..n -> TextChars] : n \in 0..MaxTextLen}

\* _normalize_text(value) and normalize_address(value)
NormalizeText ==
    /\ Unused
    /\ \E value \in Texts :
         last' = [op |-> "normalize", value |-> value,
                  text |-> _normalize_text(value),
                  address |-> normalize_address(value)]
    /\ UNCHANGED <<tables, batch_cache, relOps, calls, bot, chat>>

\* the addresses of two posts of one street: a street name with and
\* without house numbers, floor suffixes, white space and punctuation, in
\* either variant of the regional character
FingerprintChars == {"1", "2", "Lou", "Lu", "-", "Tai", "TAI"}
FingerprintAddresses ==
    UNION {[1..n -> FingerprintChars] : n \in 1..2}
        \cup {<<"Lu", "1", "Lou">>, <<"Lu", "1", "2", "Lou">>, <<"Lu", " ", "1">>,
              <<"Tai", "Lu", "1", "-", "2">>}
FingerprintTitles == {<<"Nan", "Gang">>, <<"Yan", "Jiu", "Yuan">>}

\* build_entity_fingerprint(left), build_entity_fingerprint(right), and
\* build_entity_fingerprint(left) once more
BuildFingerprint ==
    /\ Unused
    /\ \E a \in FingerprintAddresses, b \in FingerprintAddresses, title \in FingerprintTitles :
         \E left \in {[BaseListing EXCEPT !.address = a]},
            right \in {[BaseListing EXCEPT !.address = b, !.title = title,
                                           !.listing_id = "b"]} :
           last' = [op |-> "build_entity_fingerprint", left |-> left, right |-> right,
                    left_fingerprint  |-> build_entity_fingerprint(left),
                    right_fingerprint |-> build_entity_fingerprint(right),
                    again             |-> build_entity_fingerprint(left)]
    /\ UNCHANGED <<tables, batch_cache, relOps, calls, bot, chat>>

NextScoring ==
    \/ NextGate
    \/ ScoreDuplicate
    \/ NormalizeText
    \/ BuildFingerprint

SpecScoring == Init /\ [][NextScoring]_vars

\* ------------------------------------------------------------------------
\* Properties of the gate
\* ------------------------------------------------------------------------

\* what the properties read off a table, stated without the store's lookups
KeyStored(rows, source, listing_id) ==
    \E p \in 1..Len(rows) :
        Catalog[rows[p]].source = source /\ Catalog[rows[p]].listing_id = listing_id

HashStored(rows, raw_hash) ==
    raw_hash # "" /\ \E p \in 1..Len(rows) : Catalog[rows[p]].raw_hash = raw_hash

GateCall == last.op = "insert_listing_with_dedup"
Gated    == Catalog[last.listing]

\* the candidates of the gated listing: the stored rows of its source with
\* its fingerprint, and the cache entries under its fingerprint when the
\* caller passed the cache
GateCandidates ==
    {last.pre.listings[p] : p \in {q \in 1..Len(last.pre.listings) :
        /\ Catalog[last.pre.listings[q]].source = Gated.source
        /\ Fingerprints[last.pre.listings[q]] = Fingerprints[last.listing]}}
    \cup (IF last.use_cache
          THEN {last.pre_cache[k] : k \in {q \in 1..Len(last.pre_cache) :
                    Fingerprints[last.pre_cache[q]] = Fingerprints[last.listing]}}
          ELSE {})

GateScore(c) == ScoreTable[last.listing][c].score

GateBest == CHOOSE b \in {GateScore(c) : c \in GateCandidates} :
                \A c \in GateCandidates : GateScore(c) <= b

\* C1: a listing whose (source, listing_id) already has a row is answered
\* inserted = false, reason duplicate_listing_id, with dedup enabled or not
\* and whatever its hash, fingerprint or score, and no listing row is added
C1_ExistingKeySkipped ==
    (GateCall /\ KeyStored(last.pre.listings, Gated.source, Gated.listing_id)) =>
        /\ last.result.inserted = FALSE
        /\ last.result.reason = "duplicate_listing_id"
        /\ listings = last.pre.listings

\* the gate, with dedup enabled, has skipped a listing whose key is stored
\* with another content hash and another fingerprint
C1_Witness ==
    /\ GateCall
    /\ last.dedup_enabled
    /\ last.result.reason = "duplicate_listing_id"
    /\ \E p \in 1..Len(last.pre.listings) :
         LET row == last.pre.listings[p]
         IN  /\ Catalog[row].source = Gated.source
             /\ Catalog[row].listing_id = Gated.listing_id
             /\ Catalog[row].raw_hash # Gated.raw_hash
             /\ Fingerprints[row] # Fingerprints[last.listing]

\* C2: with dedup enabled and a fingerprint, once both exact checks have
\* passed, a best candidate score that reaches the threshold makes the gate
\* answer inserted = false, reason duplicate_entity, with the id and score of
\* a best-scoring candidate, and the listings table is unchanged
C2_BestCandidateSkips ==
    (/\ GateCall
     /\ last.dedup_enabled
     /\ Fingerprints[last.listing] # NoText
     /\ ~KeyStored(last.pre.listings, Gated.source, Gated.listing_id)
     /\ ~HashStored(last.pre.listings, Gated.raw_hash)
     /\ GateCandidates # {}
     /\ GateBest >= last.dedup_threshold) =>
        /\ last.result.inserted = FALSE
        /\ last.result.reason = "duplicate_entity"
        /\ last.result.score = <<GateBest>>
        /\ \E c \in GateCandidates :
             /\ GateScore(c) = GateBest
             /\ last.result.canonical_listing_id = <<Catalog[c].listing_id>>
        /\ listings = last.pre.listings

\* the gate has skipped a listing as duplicate_entity although the newest
\* stored candidate, the first it scored, was not the best one
C2_Witness ==
    /\ GateCall
    /\ last.result.reason = "duplicate_entity"
    /\ Len(last.pre.listings) >= 2
    /\ last.pre.listings[Len(last.pre.listings)] \in GateCandidates
    /\ GateScore(last.pre.listings[Len(last.pre.listings)]) < GateBest
    /\ GateBest >= last.dedup_threshold

\* ------------------------------------------------------------------------
\* Properties of merge_duplicate_group
\* ------------------------------------------------------------------------

MergeCall == last.op = "merge_duplicate_group"

\* the ids of the list given to the call, and those of them that are
\* neither empty nor the canonical id
MergeListed ==
    {last.duplicate_listing_ids[k] : k \in 1..Len(last.duplicate_listing_ids)}

MergeDuplicates == MergeListed \ {"", last.canonical_listing_id}

MergeEntries ==
    {k \in 1..Len(last.duplicate_listing_ids) :
        last.duplicate_listing_ids[k] \notin {"", last.canonical_listing_id}}

IsFavorite(db, source, lid) == <<source, lid>> \in db.favorites

IsRead(db, source, lid) ==
    \E r \in db.listings_read : r.source = source /\ r.listing_id = lid

IsNotified(db, source, lid, channel) ==
    <<source, lid, channel>> \in db.notifications_sent

\* no listing row and no relation row has this key
NoRowKeyed(db, source, lid) ==
    /\ ~KeyStored(db.listings, source, lid)
    /\ ~IsFavorite(db, source, lid)
    /\ ~IsRead(db, source, lid)
    /\ \A channel \in Channels : ~IsNotified(db, source, lid, channel)

\* the canonical holds, afterwards, exactly the relations its group held
HoldsRelationsOf(before, after, source, canonical, members) ==
    /\ IsFavorite(after, source, canonical) <=>
           \E m \in members : IsFavorite(before, source, m)
    /\ IsRead(after, source, canonical) <=>
           \E m \in members : IsRead(before, source, m)
    /\ \A channel \in Channels :
           IsNotified(after, source, canonical, channel) <=>
               \E m \in members : IsNotified(before, source, m, channel)

MergeSucceeded ==
    /\ MergeCall
    /\ ~last.raised
    /\ KeyStored(last.pre.listings, last.source, last.canonical_listing_id)

\* C3 as stated: after a successful merge whose canonical listing exists,
\* no listing or relation row keyed by any id of the duplicates list
\* remains, the canonical row remains, and the canonical holds exactly the
\* relations that it or any listed id held before
C3_EveryListedIdMerged ==
    MergeSucceeded =>
        /\ \A d \in MergeListed : NoRowKeyed(Db, last.source, d)
        /\ KeyStored(listings, last.source, last.canonical_listing_id)
        /\ HoldsRelationsOf(last.pre, Db, last.source, last.canonical_listing_id,
                            MergeListed \cup {last.canonical_listing_id})

\* C3, amended: after a successful merge whose canonical listing exists,
\* no listing or relation row keyed by a listed id that is non-empty and
\* differs from the canonical id remains, the canonical row remains, and
\* the canonical holds exactly the relations that it or any such id held
C3_RelationsTransferred ==
    MergeSucceeded =>
        /\ \A d \in MergeDuplicates : NoRowKeyed(Db, last.source, d)
        /\ KeyStored(listings, last.source, last.canonical_listing_id)
        /\ HoldsRelationsOf(last.pre, Db, last.source, last.canonical_listing_id,
                            MergeDuplicates \cup {last.canonical_listing_id})

\* a merge has moved a stored duplicate's favorite and a second relation
\* onto a canonical that held neither
C3_Witness ==
    /\ MergeSucceeded
    /\ last.merged > 0
    /\ ~IsFavorite(last.pre, last.source, last.canonical_listing_id)
    /\ \E d \in MergeDuplicates :
         /\ KeyStored(last.pre.listings, last.source, d)
         /\ IsFavorite(last.pre, last.source, d)
         /\ \/ /\ IsRead(last.pre, last.source, d)
               /\ ~IsRead(last.pre, last.source, last.canonical_listing_id)
            \/ \E channel \in Channels :
                 /\ IsNotified(last.pre, last.source, d, channel)
                 /\ ~IsNotified(last.pre, last.source, last.canonical_listing_id, channel)
    /\ IsFavorite(Db, last.source, last.canonical_listing_id)

\* C4: a merge in which a statement fails leaves all five tables as they
\* were before the call; a merge in which none fails leaves no row keyed by
\* a duplicate and one more merge audit row for every duplicate, in order
C4_MergeAtomic ==
    MergeCall =>
        IF last.raised
        THEN Db = last.pre
        ELSE /\ \A d \in MergeDuplicates : NoRowKeyed(Db, last.source, d)
             /\ Len(dedup_audit) = Len(last.pre.dedup_audit) + Cardinality(MergeEntries)
             /\ SubSeq(dedup_audit, 1, Len(last.pre.dedup_audit)) = last.pre.dedup_audit
             /\ \A n \in 1..Cardinality(MergeEntries) :
                  LET row == dedup_audit[Len(last.pre.dedup_audit) + n]
                  IN  /\ row.event_type = "merge"
                      /\ row.listing_id \in MergeDuplicates
                      /\ row.canonical_listing_id = <<last.canonical_listing_id>>

\* a statement for the second duplicate failed after the transaction had
\* changed the tables for the first, and the store is as before the call
C4_Witness ==
    /\ MergeCall
    /\ last.raised
    /\ last.dirty
    /\ last.fail_at > StatementsPerDuplicate
    /\ KeyStored(listings, last.source, last.duplicate_listing_ids[1])
    /\ Db = last.pre

\* C9 as stated: for every list that contains the canonical id, other ids
\* or not, the call returns 0 and changes no table
C9_ListWithCanonicalIsNoOp ==
    (MergeCall /\ ~last.raised /\ last.canonical_listing_id \in MergeListed) =>
        /\ last.merged = 0
        /\ Db = last.pre

\* C9, amended: for every list that holds no id other than the canonical id
\* and the empty id, the call returns 0 and changes no table; every other
\* id of a list is merged and counted, the canonical id in the list or not
C9_OnlyCanonicalOrEmptyIsNoOp ==
    (MergeCall /\ ~last.raised) =>
        /\ last.merged = Cardinality(MergeEntries)
        /\ MergeListed \subseteq {"", last.canonical_listing_id} =>
               (last.merged = 0 /\ Db = last.pre)

\* a list holding the canonical id and the empty id, on a store that holds
\* both listings, was answered 0
C9_Witness ==
    /\ MergeCall
    /\ MergeListed = {"", last.canonical_listing_id}
    /\ KeyStored(last.pre.listings, last.source, last.canonical_listing_id)
    /\ KeyStored(last.pre.listings, last.source, "")
    /\ last.merged = 0

\* C10: merge(c, []) and merge(c, [c]) return 0 and leave the listings,
\* the three relation tables and the audit log as they were
C10_EmptyAndSelfMerge ==
    (/\ MergeCall
     /\ \/ last.duplicate_listing_ids = <<>>
        \/ last.duplicate_listing_ids = <<last.canonical_listing_id>>) =>
        /\ ~last.raised
        /\ last.merged = 0
        /\ listings = last.pre.listings
        /\ notifications_sent = last.pre.notifications_sent
        /\ listings_read = last.pre.listings_read
        /\ favorites = last.pre.favorites
        /\ dedup_audit = last.pre.dedup_audit

\* merge(c, [c]) was called on a store where c is a listing with a favorite
C10_Witness ==
    /\ MergeCall
    /\ last.duplicate_listing_ids = <<last.canonical_listing_id>>
    /\ KeyStored(last.pre.listings, last.source, last.canonical_listing_id)
    /\ IsFavorite(last.pre, last.source, last.canonical_listing_id)
    /\ last.merged = 0

\* ------------------------------------------------------------------------
\* Properties of the cleanup
\* ------------------------------------------------------------------------

CleanupCall == last.op = "run_cleanup"

Applied == CleanupCall /\ ~last.report.dry_run

\* relation rows of a database whose key has no listing row
OrphansOf(db) ==
    [notifications_sent |-> Cardinality({n \in db.notifications_sent :
                                ~KeyStored(db.listings, n[1], n[2])}),
     listings_read      |-> Cardinality({r \in db.listings_read :
                                ~KeyStored(db.listings, r.source, r.listing_id)}),
     favorites          |-> Cardinality({f \in db.favorites :
                                ~KeyStored(db.listings, f[1], f[2])})]

NoOrphans ==
    [notifications_sent |-> 0, listings_read |-> 0, favorites |-> 0]

Bucketed ==
    {last.pre.listings[p] : p \in {q \in 1..Len(last.pre.listings) :
        /\ Catalog[last.pre.listings[q]].source = last.source
        /\ Fingerprints[last.pre.listings[q]] # NoText}}

SameBucket(i, j) == Fingerprints[i] = Fingerprints[j]

RECURSIVE ChainFrom(_)
\* the entries a chain of pairs scoring >= threshold leads to from S,
\* inside the bucket
ChainFrom(S) ==
    LET more == S \cup {j \in Bucketed : \E i \in S :
                    /\ SameBucket(i, j)
                    /\ ScoreTable[i][j].score >= last.threshold}
    IN  IF more = S THEN S ELSE ChainFrom(more)

ChainGroups == {ChainFrom({i}) : i \in Bucketed}

PlanMembers(plan) ==
    {plan.canonical_listing_id} \cup
        {plan.duplicate_listing_ids[n] : n \in 1..Len(plan.duplicate_listing_ids)}

SamePlan(i, j) ==
    \E k \in 1..Len(last.report.plans) :
        {Catalog[i].listing_id, Catalog[j].listing_id}
            \subseteq PlanMembers(last.report.plans[k])

\* run_cleanup keeps the first max(batch_size, 1) plans
PlansKept ==
    Cardinality({g \in ChainGroups : Cardinality(g) >= 2})
        <= Max(last.batch_size, 1)

MemberRow(lid) ==
    CHOOSE p \in 1..Len(last.pre.listings) :
        /\ Catalog[last.pre.listings[p]].source = last.source
        /\ Catalog[last.pre.listings[p]].listing_id = lid

NotificationsOf(lid) ==
    Cardinality({channel \in Channels : IsNotified(last.pre, last.source, lid, channel)})

ReadsOf(lid) == IF IsRead(last.pre, last.source, lid) THEN 1 ELSE 0

FavoritesOf(lid) == IF IsFavorite(last.pre, last.source, lid) THEN 1 ELSE 0

LinkedOf(lid) == FavoritesOf(lid) * 4 + NotificationsOf(lid) * 3 + ReadsOf(lid) * 2

CompleteOf(lid) == _completeness_score(Catalog[last.pre.listings[MemberRow(lid)]])

StampOf(lid) == _timestamp_score(RowAt(last.pre.listings, MemberRow(lid)))

\* c comes before m by linked state, then completeness, then recency
Outranks(c, m) ==
    \/ LinkedOf(c) > LinkedOf(m)
    \/ /\ LinkedOf(c) = LinkedOf(m)
       /\ \/ CompleteOf(c) > CompleteOf(m)
          \/ CompleteOf(c) = CompleteOf(m) /\ StampOf(c) > StampOf(m)

TiedWith(c, m) ==
    /\ LinkedOf(c) = LinkedOf(m)
    /\ CompleteOf(c) = CompleteOf(m)
    /\ StampOf(c) = StampOf(m)

\* C7 as stated: the canonical of a group is the member with the highest
\* linked-state score, then the highest completeness, then the most recent
\* timestamp, then the lexicographically smallest listing id
C7_SmallestIdBreaksTies ==
    CleanupCall =>
        \A k \in 1..Len(last.report.plans) :
            LET c == last.report.plans[k].canonical_listing_id
            IN  \A m \in PlanMembers(last.report.plans[k]) \ {c} :
                    \/ Outranks(c, m)
                    \/ TiedWith(c, m) /\ IdRank(c) < IdRank(m)

\* C7, amended: the canonical of a group is the member with the highest
\* linked-state score, then the highest completeness, then the most recent
\* timestamp, then the lexicographically largest listing id
C7_LargestIdBreaksTies ==
    CleanupCall =>
        \A k \in 1..Len(last.report.plans) :
            LET c == last.report.plans[k].canonical_listing_id
            IN  \A m \in PlanMembers(last.report.plans[k]) \ {c} :
                    \/ Outranks(c, m)
                    \/ TiedWith(c, m) /\ IdRank(c) > IdRank(m)

\* the canonical of a plan has more linked state than a more complete
\* member, and ties with a third member but for the listing id
C7_Witness ==
    /\ CleanupCall
    /\ \E k \in 1..Len(last.report.plans) :
         LET c == last.report.plans[k].canonical_listing_id
             others == PlanMembers(last.report.plans[k]) \ {c}
         IN  /\ \E m \in others :
                  /\ LinkedOf(c) > LinkedOf(m)
                  /\ CompleteOf(c) < CompleteOf(m)
             /\ \E m \in others : TiedWith(c, m) /\ LinkedOf(c) > 0

\* a plan whose members have equal completeness and recency and of which
\* exactly one is a favorite
OneFavoriteGroup(plan) ==
    /\ \A m, n \in PlanMembers(plan) :
         CompleteOf(m) = CompleteOf(n) /\ StampOf(m) = StampOf(n)
    /\ Cardinality({m \in PlanMembers(plan) : FavoritesOf(m) = 1}) = 1

TheFavorite(plan) == CHOOSE m \in PlanMembers(plan) : FavoritesOf(m) = 1

\* C8 as stated: in a group of equal completeness and recency with exactly
\* one favorite, the favorite is the canonical, whatever the notification
\* and read counts of the others
C8_FavoriteAlwaysCanonical ==
    CleanupCall =>
        \A k \in 1..Len(last.report.plans) :
            OneFavoriteGroup(last.report.plans[k]) =>
                last.report.plans[k].canonical_listing_id
                    = TheFavorite(last.report.plans[k])

\* C8, amended: in such a group the favorite is the canonical when the
\* linked-state score of every other member, notifications*3 + reads*2,
\* is below the favorite's
C8_FavoriteCanonicalUnlessOutscored ==
    CleanupCall =>
        \A k \in 1..Len(last.report.plans) :
            LET plan == last.report.plans[k]
            IN  (/\ OneFavoriteGroup(plan)
                 /\ \A m \in PlanMembers(plan) \ {TheFavorite(plan)} :
                        LinkedOf(m) < LinkedOf(TheFavorite(plan))) =>
                    plan.canonical_listing_id = TheFavorite(plan)

\* the favorite of such a group is the canonical although another member,
\* which has the larger id, was notified
C8_Witness ==
    /\ CleanupCall
    /\ \E k \in 1..Len(last.report.plans) :
         LET plan == last.report.plans[k]
         IN  /\ OneFavoriteGroup(plan)
             /\ plan.canonical_listing_id = TheFavorite(plan)
             /\ \E m \in PlanMembers(plan) \ {TheFavorite(plan)} :
                  /\ NotificationsOf(m) > 0
                  /\ IdRank(m) > IdRank(TheFavorite(plan))


\* ------------------------------------------------------------------------
\* Properties of run_cleanup
\* ------------------------------------------------------------------------

DryRun == CleanupCall /\ last.report.dry_run

RECURSIVE DuplicatesIn(_)
\* the number of duplicate ids the plans list
DuplicatesIn(plans) ==
    IF plans = <<>> THEN 0
    ELSE Len(plans[1].duplicate_listing_ids) + DuplicatesIn(Tail(plans))

\* C11: a dry run leaves the five tables as they were, and its report has
\* merged_groups = merged_records = cleanup_failed = 0, no validation, and
\* the projected counts of its plans
C11_DryRunChangesNothing ==
    DryRun =>
        /\ Db = last.pre
        /\ last.report.merged_groups = 0
        /\ last.report.merged_records = 0
        /\ last.report.cleanup_failed = 0
        /\ last.report.validation = <<>>
        /\ last.report.groups = Len(last.report.plans)
        /\ last.report.projected_merge_records = DuplicatesIn(last.report.plans)

\* a dry run has planned the merge of a duplicate that is a favorite
C11_Witness ==
    /\ DryRun
    /\ last.report.groups > 0
    /\ last.report.projected_merge_records > 0
    /\ \E k \in 1..Len(last.report.plans) :
         \E n \in 1..Len(last.report.plans[k].duplicate_listing_ids) :
            IsFavorite(Db, last.source,
                       last.report.plans[k].duplicate_listing_ids[n])

PlanRuns == 1..Len(last.report.plans)

\* the ids of a plan that a merge handles as duplicates
PlanDuplicates(plan) ==
    {plan.duplicate_listing_ids[n] : n \in 1..Len(plan.duplicate_listing_ids)}
        \ {"", plan.canonical_listing_id}

\* the plans whose merge did not raise, and the duplicates they list
MergedRuns == {k \in PlanRuns : k \notin last.failing}

RECURSIVE DuplicatesOfRuns(_)
DuplicatesOfRuns(runs) ==
    IF runs = {} THEN 0
    ELSE LET k == CHOOSE x \in runs : TRUE
         IN  Cardinality(PlanDuplicates(last.report.plans[k]))
                + DuplicatesOfRuns(runs \ {k})

\* the key has the same relation rows in both databases
SameRelations(before, after, source, lid) ==
    /\ IsFavorite(before, source, lid) <=> IsFavorite(after, source, lid)
    /\ {r \in before.listings_read : r.source = source /\ r.listing_id = lid}
         = {r \in after.listings_read : r.source = source /\ r.listing_id = lid}
    /\ \A channel \in Channels :
         IsNotified(before, source, lid, channel)
            <=> IsNotified(after, source, lid, channel)

\* C12: in an apply run, every plan whose merge raises adds one to
\* cleanup_failed and leaves the rows of its listings as they were; every
\* other plan is merged: its duplicates are gone, its canonical row remains
\* and holds the relations of the group; the counts are those of the merged
\* plans, and the report carries the validator's counts of the store after
\* the run
C12_FailureIsContained ==
    Applied =>
        /\ last.report.cleanup_failed = Cardinality(last.failing)
        /\ \A k \in PlanRuns \ MergedRuns :
             \A m \in PlanMembers(last.report.plans[k]) :
                /\ KeyStored(listings, last.source, m)
                /\ SameRelations(last.pre, Db, last.source, m)
        /\ \A k \in MergedRuns :
             /\ \A d \in PlanDuplicates(last.report.plans[k]) :
                    NoRowKeyed(Db, last.source, d)
             /\ KeyStored(listings, last.source,
                          last.report.plans[k].canonical_listing_id)
             /\ HoldsRelationsOf(last.pre, Db, last.source,
                    last.report.plans[k].canonical_listing_id,
                    PlanMembers(last.report.plans[k]))
        /\ Len(listings) = Len(last.pre.listings) - DuplicatesOfRuns(MergedRuns)
        /\ Len(dedup_audit) = Len(last.pre.dedup_audit) + DuplicatesOfRuns(MergedRuns)
        /\ last.report.merged_records = DuplicatesOfRuns(MergedRuns)
        /\ last.report.merged_groups =
             Cardinality({k \in MergedRuns :
                            PlanDuplicates(last.report.plans[k]) # {}})
        /\ last.report.validation = <<OrphansOf(Db)>>

\* an apply run over two plans: the merge of the first has raised and its
\* duplicate is still stored, the second has been merged, and the report
\* carries the validation
C12_Witness ==
    /\ Applied
    /\ Len(last.report.plans) = 2
    /\ last.failing = {1}
    /\ last.report.cleanup_failed = 1
    /\ \A d \in PlanDuplicates(last.report.plans[1]) :
          KeyStored(listings, last.source, d)
    /\ PlanDuplicates(last.report.plans[2]) # {}
    /\ \A d \in PlanDuplicates(last.report.plans[2]) :
          /\ KeyStored(last.pre.listings, last.source, d)
          /\ ~KeyStored(listings, last.source, d)
    /\ IsFavorite(last.pre, last.source, last.report.plans[2].canonical_listing_id)
    /\ last.report.merged_records = 1
    /\ last.report.validation # <<>>


\* ------------------------------------------------------------------------
\* Properties of gate calls that interleave
\* ------------------------------------------------------------------------

\* both calls have returned, they were for the same key, and both had
\* passed the check of the key before either reached its INSERT
RaceOver ==
    /\ \A p \in Callers : calls[p].pc = "done" /\ calls[p].raced
    /\ \A p, q \in Callers : SameKey(calls[p].listing, calls[q].listing)

Returned(p) == calls[p].result[1]

Winners == {p \in Callers : Returned(p).inserted}

\* the rows of the listings table with the key of the calls
RowsOfRace ==
    {n \in 1..Len(listings) :
        \A p \in Callers :
            /\ Catalog[listings[n]].source = Catalog[calls[p].listing].source
            /\ Catalog[listings[n]].listing_id = Catalog[calls[p].listing].listing_id}

RowsWithKeyOf(n) ==
    {m \in 1..Len(listings) :
        /\ Catalog[listings[m]].source = Catalog[listings[n]].source
        /\ Catalog[listings[m]].listing_id = Catalog[listings[n]].listing_id}

\* C14: in every reachable state, under any interleaving of gate inserts,
\* merges and cleanup runs, the listings table holds at most one row per
\* (source, listing_id)
C14_OneRowPerKey ==
    \A n \in 1..Len(listings) : RowsWithKeyOf(n) = {n}

\* a merge has deleted a row, and after it two gate calls for one key have
\* both passed the check of the key: one has inserted, the other has been
\* refused by the UNIQUE constraint, and the table holds the key once
C14_Witness ==
    /\ Len(dedup_audit) > 0
    /\ RaceOver
    /\ \E w, l \in Callers :
         /\ Returned(w).inserted
         /\ Returned(l).reason = "duplicate_integrity"
    /\ Len(listings) = 2
    /\ C14_OneRowPerKey

\* ------------------------------------------------------------------------
\* Properties of the audit rows of gate calls
\* ------------------------------------------------------------------------

AuditedSkips == {"duplicate_listing_id", "duplicate_raw_hash", "duplicate_entity"}

\* the row describes the decision that call p returned
DescribesDecision(row, p) ==
    /\ row.source = Normalized[calls[p].listing].source
    /\ row.listing_id = Normalized[calls[p].listing].listing_id
    /\ row.event_type = IF Returned(p).inserted THEN "insert" ELSE "skip"
    /\ row.canonical_listing_id = Returned(p).canonical_listing_id
    /\ row.entity_fingerprint = Returned(p).entity_fingerprint

\* C15 as stated: every gate call, whether it skips (whatever the reason)
\* or inserts, appends one event to dedup_audit describing its decision
C15_EveryCallAudited ==
    \A p \in Callers :
        calls[p].pc = "done" =>
            /\ Len(calls[p].audit_rows) = 1
            /\ DescribesDecision(calls[p].audit_rows[1], p)

\* C15, amended: each call that skips with reason duplicate_listing_id,
\* duplicate_raw_hash or duplicate_entity appends one skip event to
\* dedup_audit describing that decision; a call that inserts, or that
\* returns duplicate_integrity, appends no event
C15_SkipsAudited ==
    \A p \in Callers :
        calls[p].pc = "done" =>
            IF Returned(p).reason \in AuditedSkips
            THEN /\ Len(calls[p].audit_rows) = 1
                 /\ calls[p].audit_rows[1].event_type = "skip"
                 /\ DescribesDecision(calls[p].audit_rows[1], p)
                 /\ \E n \in 1..Len(dedup_audit) :
                       dedup_audit[n] = calls[p].audit_rows[1]
            ELSE /\ Returned(p).reason \in {"inserted", "duplicate_integrity"}
                 /\ calls[p].audit_rows = <<>>

\* one call has skipped and its event is in dedup_audit, the other has
\* inserted and has written no event
C15_Witness ==
    \E s, w \in Callers :
        /\ calls[s].pc = "done" /\ calls[w].pc = "done"
        /\ Returned(s).reason \in AuditedSkips
        /\ Len(calls[s].audit_rows) = 1
        /\ dedup_audit # <<>>
        /\ Returned(w).inserted
        /\ calls[w].audit_rows = <<>>

\* ------------------------------------------------------------------------
\* Properties of the exact checks and of the gate with dedup disabled
\* ------------------------------------------------------------------------

\* C16: when no row has the listing's (source, listing_id) but a stored row
\* has its non-empty raw_hash, the gate answers inserted = false, reason
\* duplicate_raw_hash, with that row's id as canonical id, adds no listing
\* row and returns no score, with dedup enabled or not; when the key and the
\* hash both match, the reason is duplicate_listing_id
C16_ExactHashSkipped ==
    (GateCall /\ HashStored(last.pre.listings, Gated.raw_hash)) =>
        IF KeyStored(last.pre.listings, Gated.source, Gated.listing_id)
        THEN last.result.reason = "duplicate_listing_id"
        ELSE /\ last.result.inserted = FALSE
             /\ last.result.reason = "duplicate_raw_hash"
             /\ \E p \in 1..Len(last.pre.listings) :
                   /\ Catalog[last.pre.listings[p]].raw_hash = Gated.raw_hash
                   /\ last.result.canonical_listing_id =
                         <<Catalog[last.pre.listings[p]].listing_id>>
             /\ last.result.score = <<>>
             /\ listings = last.pre.listings
             /\ dedup_audit[Len(dedup_audit)].reason = <<"duplicate_raw_hash">>

\* the gate, with dedup enabled, has skipped a listing as duplicate_raw_hash
\* although the stored row with its hash is a candidate that scores at least
\* the threshold against it
C16_Witness ==
    /\ GateCall
    /\ last.dedup_enabled
    /\ last.result.reason = "duplicate_raw_hash"
    /\ \E c \in GateCandidates :
         /\ Catalog[c].raw_hash = Gated.raw_hash
         /\ GateScore(c) >= last.dedup_threshold

\* C17: with dedup disabled, or with an empty fingerprint, a listing that
\* passes both exact checks is inserted (inserted = true, reason inserted)
\* without scoring and without an audit row, also when a stored listing of
\* its bucket scores at least the threshold against it
C17_DisabledDedupInserts ==
    (/\ GateCall
     /\ ~last.dedup_enabled \/ Normalized[last.listing].entity_fingerprint = NoText
     /\ ~KeyStored(last.pre.listings, Gated.source, Gated.listing_id)
     /\ ~HashStored(last.pre.listings, Gated.raw_hash)) =>
        /\ last.result.inserted = TRUE
        /\ last.result.reason = "inserted"
        /\ last.result.score = <<>>
        /\ last.result.canonical_listing_id = <<>>
        /\ listings = Append(last.pre.listings, last.listing)
        /\ dedup_audit = last.pre.dedup_audit

\* the gate, with dedup disabled, has inserted a listing next to a stored
\* listing of its source and fingerprint that scores at least the threshold
C17_Witness ==
    /\ GateCall
    /\ ~last.dedup_enabled
    /\ last.result.inserted
    /\ listings = Append(last.pre.listings, last.listing)
    /\ \E p \in 1..Len(last.pre.listings) :
         /\ last.pre.listings[p] \in GateCandidates
         /\ Catalog[last.pre.listings[p]].source = Gated.source
         /\ GateScore(last.pre.listings[p]) >= last.dedup_threshold

\* ------------------------------------------------------------------------
\* Properties of the batch cache
\* ------------------------------------------------------------------------

\* the entries of the cache the call received that have the fingerprint of
\* the gated listing
GatedBucket ==
    {last.pre_cache[k] : k \in {q \in 1..Len(last.pre_cache) :
        Normalized[last.pre_cache[q]].entity_fingerprint =
            Normalized[last.listing].entity_fingerprint}}

ExactChecksPass ==
    /\ ~KeyStored(last.pre.listings, Gated.source, Gated.listing_id)
    /\ ~HashStored(last.pre.listings, Gated.raw_hash)

\* C18: with dedup enabled, a listing that passes the exact checks and has
\* no candidate at the threshold is inserted; a caller's batch cache
\* receives the listing exactly when the call inserts it, so that the cache
\* of a batch holds the inserted listings of the batch and none that was
\* skipped; a later listing is scored against every cached listing of its
\* fingerprint: one of them at the threshold makes it a duplicate_entity
\* with at least that score
C18_CacheHoldsInserted ==
    /\ \A k \in 1..Len(batch_cache) :
         \E n \in 1..Len(listings) : listings[n] = batch_cache[k]
    /\ GateCall =>
         /\ batch_cache =
               IF last.use_cache /\ last.result.inserted
               THEN Append(last.pre_cache, last.listing)
               ELSE last.pre_cache
         /\ (/\ last.dedup_enabled
             /\ ExactChecksPass
             /\ \A c \in GateCandidates : GateScore(c) < last.dedup_threshold)
               => /\ last.result.inserted
                  /\ listings = Append(last.pre.listings, last.listing)
         /\ (last.dedup_enabled /\ last.use_cache /\ ExactChecksPass) =>
               \A c \in GatedBucket :
                   GateScore(c) >= last.dedup_threshold =>
                       /\ last.result.reason = "duplicate_entity"
                       /\ last.result.score # <<>>
                       /\ last.result.score[1] >= GateScore(c)
                       /\ batch_cache = last.pre_cache

\* a listing of the batch has been skipped as duplicate_entity because of a
\* listing that the batch inserted before it and that the candidate query
\* of the database does not return for it; the cache is as it was
C18_Witness ==
    /\ GateCall
    /\ last.use_cache
    /\ last.result.reason = "duplicate_entity"
    /\ \E c \in GatedBucket :
         /\ Catalog[c].source # Gated.source
         /\ GateScore(c) >= last.dedup_threshold
    /\ \A p \in 1..Len(last.pre.listings) :
         Catalog[last.pre.listings[p]].source = Gated.source =>
             GateScore(last.pre.listings[p]) < last.dedup_threshold
    /\ batch_cache = last.pre_cache
    /\ batch_cache # <<>>

\* ------------------------------------------------------------------------
\* Properties of the counts of run_cleanup
\* ------------------------------------------------------------------------

\* the rows of the table before the run whose key has no row after it
RowsDeleted ==
    {p \in 1..Len(last.pre.listings) :
        ~KeyStored(listings, Catalog[last.pre.listings[p]].source,
                   Catalog[last.pre.listings[p]].listing_id)}

\* C19: after an apply run the listings table has the rows it had before
\* minus report.merged_records rows: merged_records counts the rows that
\* the run deleted, and the run adds none
C19_MergedRecordsAreDeletedRows ==
    Applied =>
        /\ Len(listings) = Len(last.pre.listings) - last.report.merged_records
        /\ last.report.merged_records = Cardinality(RowsDeleted)
        /\ \A n \in 1..Len(listings) :
              \E p \in 1..Len(last.pre.listings) : last.pre.listings[p] = listings[n]

\* an apply run has merged two groups and deleted one row for each
C19_Witness ==
    /\ Applied
    /\ last.failing = {}
    /\ last.report.merged_groups = 2
    /\ last.report.merged_records = 2
    /\ Cardinality(RowsDeleted) = 2
    /\ Len(listings) = Len(last.pre.listings) - 2

\* the merges an apply run has attempted: those that raised and those that
\* returned
MergesAttempted ==
    IF last.report.dry_run THEN 0
    ELSE Cardinality(last.failing) + Cardinality(MergedRuns)

\* C20 as stated: for every batch_size the caller passes, the report has
\* groups <= batch_size and at most batch_size merges are attempted
C20_GroupsWithinBatchSize ==
    CleanupCall =>
        /\ last.report.groups <= last.batch_size
        /\ Len(last.report.plans) <= last.batch_size
        /\ MergesAttempted <= last.batch_size

\* C20, amended: for every batch_size the caller passes, run_cleanup
\* handles at most max(batch_size, 1) plans: the report has
\* groups <= max(batch_size, 1) and at most that many merges are attempted;
\* the plans are the first ones of the planner
C20_GroupsWithinClampedBatchSize ==
    CleanupCall =>
        /\ last.report.groups <= Max(last.batch_size, 1)
        /\ Len(last.report.plans) = last.report.groups
        /\ MergesAttempted <= Max(last.batch_size, 1)
        /\ last.failing \subseteq PlanRuns
        /\ last.report.plans =
              Take(plan_cleanup(last.pre, last.source, last.threshold),
                   Max(last.batch_size, 1))

\* an apply run with batch size 1 over a store with two groups of
\* duplicates has merged the first group only
C20_Witness ==
    /\ Applied
    /\ last.batch_size = 1
    /\ Len(plan_cleanup(last.pre, last.source, last.threshold)) = 2
    /\ last.report.groups = 1
    /\ MergesAttempted = 1
    /\ last.report.merged_records = 1
    /\ Len(listings) = Len(last.pre.listings) - 1

\* ------------------------------------------------------------------------
\* Properties of the plans of plan_cleanup
\* ------------------------------------------------------------------------

\* the catalogue entry stored under the key before the call
EntryOf(source, lid) ==
    CHOOSE i \in {last.pre.listings[p] : p \in 1..Len(last.pre.listings)} :
        Catalog[i].source = source /\ Catalog[i].listing_id = lid

\* the score and the reason of the canonical record of a plan against one of
\* its duplicates
PairOf(plan, d) ==
    ScoreTable[EntryOf(last.source, plan.canonical_listing_id)]
              [EntryOf(last.source, d)]

DuplicateIds(plan) ==
    {plan.duplicate_listing_ids[n] : n \in 1..Len(plan.duplicate_listing_ids)}

\* C21: the score of every plan is the maximum of score(canonical, d) over
\* the duplicates d of the plan, and its reason is the reason of a pair of
\* the canonical record and a duplicate that attains the maximum
C21_PlanScoreIsMaxPair ==
    CleanupCall =>
        \A k \in 1..Len(last.report.plans) :
            /\ DuplicateIds(last.report.plans[k]) # {}
            /\ \A d \in DuplicateIds(last.report.plans[k]) :
                  PairOf(last.report.plans[k], d).score <= last.report.plans[k].score
            /\ \E d \in DuplicateIds(last.report.plans[k]) :
                  /\ PairOf(last.report.plans[k], d).score = last.report.plans[k].score
                  /\ PairOf(last.report.plans[k], d).reason = last.report.plans[k].reason

\* a run has planned a group of three whose duplicates score differently
\* against the canonical record, the lower one being listed last
C21_Witness ==
    /\ CleanupCall
    /\ \E k \in 1..Len(last.report.plans) :
         /\ Len(last.report.plans[k].duplicate_listing_ids) = 2
         /\ PairOf(last.report.plans[k],
                   last.report.plans[k].duplicate_listing_ids[2]).score
               < last.report.plans[k].score
         /\ PairOf(last.report.plans[k],
                   last.report.plans[k].duplicate_listing_ids[1]).score
               = last.report.plans[k].score

\* ------------------------------------------------------------------------
\* Properties of score_duplicate
\* ------------------------------------------------------------------------

ScoreCall == last.op = "score_duplicate"

\* the call with the two listings exchanged
Exchanged ==
    score_duplicate(last.right, last.left,
                    last.price_tolerance, last.size_tolerance)

\* C25: for every pair of listings and every price and size tolerance,
\* score_duplicate(a, b) and score_duplicate(b, a) give the same overall
\* score, the same sub-scores and the same reason
C25_ScoreSymmetric ==
    ScoreCall => last.result = Exchanged

\* the guard's case: the two listings share no community name and their
\* address similarity is below 0.45
Unrelated(a, b) ==
    /\ ~(a.community # <<>> /\ a.community = b.community)
    /\ _address_similarity(a, b) < 450000

UnrelatedListings(left, right) ==
    Unrelated(listing_to_features(left), listing_to_features(right))

ScoreCap == 6900

\* C26: two listings with no community match and an address similarity
\* below 0.45 score at most 0.69, whatever their district, price, size and
\* layout; at a threshold above 0.69 the gate does not take one of them for
\* a duplicate_entity of the other, and a listing gated after listings
\* that are all unrelated to it in this sense is inserted
C26_UnrelatedScoreCapped ==
    /\ ScoreCall /\ UnrelatedListings(last.left, last.right) =>
         /\ last.result.score <= ScoreCap
         /\ ~is_duplicate(last.result.score, DEFAULT_DEDUP_THRESHOLD)
    /\ (GateCall /\ last.dedup_threshold > ScoreCap) =>
         /\ \A c \in GateCandidates :
               UnrelatedListings(Normalized[last.listing], Normalized[c]) =>
                   /\ GateScore(c) <= ScoreCap
                   /\ last.result.reason = "duplicate_entity" =>
                         last.result.score # <<GateScore(c)>>
         /\ (/\ ExactChecksPass
             /\ \A c \in GateCandidates :
                   UnrelatedListings(Normalized[last.listing], Normalized[c]))
               => /\ last.result.inserted
                  /\ listings = Append(last.pre.listings, last.listing)

\* the two listings agree in everything but their addresses, which have two
\* characters of nine in common: the weighted sum is above 0.69 and the
\* score is 0.69
C26_Witness ==
    /\ ScoreCall
    /\ UnrelatedListings(last.left, last.right)
    /\ last.result.district_match
    /\ last.result.price_similarity = 10000
    /\ last.result.size_similarity = 10000
    /\ last.result.layout_similarity = 10000
    /\ last.result.score = ScoreCap

\* the store holds A; the gate, with dedup enabled, has inserted a listing
\* of A's district and size with an unrelated address
C26_GateWitness ==
    /\ GateCall
    /\ last.dedup_enabled
    /\ last.pre.listings = <<1>>
    /\ UnrelatedListings(Normalized[last.listing], Normalized[1])
    /\ ScoreTable[last.listing][1].district_match
    /\ ScoreTable[last.listing][1].size_similarity = 10000
    /\ ScoreTable[last.listing][1].score <= ScoreCap
    /\ last.result.inserted

\* ------------------------------------------------------------------------
\* Properties of the normalisation and of the fingerprint
\* ------------------------------------------------------------------------

NormalizeCall == last.op = "normalize"

\* C27: normalising a normalised text changes nothing:
\* _normalize_text(_normalize_text(x)) = _normalize_text(x) and
\* normalize_address(normalize_address(x)) = normalize_address(x)
C27_NormalizationIdempotent ==
    NormalizeCall =>
        /\ _normalize_text(last.text) = last.text
        /\ normalize_address(last.address) = last.address

\* a text with white space, an upper-case letter, the variant character
\* and a floor suffix has been normalised: every one of the rules has
\* changed it
C27_Witness ==
    /\ NormalizeCall
    /\ \E n \in 1..Len(last.value) : last.value[n] \in Spaces \cup Puncts
    /\ \E n \in 1..Len(last.value) : last.value[n] \in UpperLatin \cup {"Tai"}
    /\ \E n \in 1..(Len(last.value) - 1) :
          last.value[n] \in Digits /\ last.value[n + 1] = "Lou"
    /\ last.text # last.value
    /\ last.address # last.text
    /\ last.address # <<>>

FingerprintCall == last.op = "build_entity_fingerprint"

\* a text without its digits
WithoutDigits(text) ==
    FilterSeq(text, {text[i] : i \in 1..Len(text)} \ Digits)

\* a text without its floor suffixes, white space and punctuation, in one
\* variant of the regional character
WithoutFormatting(text) ==
    StripFloorSuffix(FilterSeq(ReplaceTai(text),
        ({text[i] : i \in 1..Len(text)} \cup {"TAI"}) \ (Spaces \cup Puncts)))

\* the two addresses differ only in digits, or only in formatting
DifferOnlyInNoise(a, b) ==
    \/ WithoutDigits(a) = WithoutDigits(b)
    \/ WithoutFormatting(a) = WithoutFormatting(b)

\* C28: two listings of one district whose addresses differ only in digits
\* or only in formatting (white space, punctuation, the variant of the
\* regional character, a floor suffix) have the same entity fingerprint,
\* and a second computation gives a listing the fingerprint of the first
C28_FingerprintStable ==
    FingerprintCall =>
        /\ last.again = last.left_fingerprint
        /\ (/\ last.left.district = last.right.district
            /\ DifferOnlyInNoise(last.left.address, last.right.address))
           => last.left_fingerprint = last.right_fingerprint

\* the same, for addresses that keep a character of the street once their
\* digits and floor suffixes are taken away, and keep no floor character
C28_StreetFingerprintStable ==
    (/\ FingerprintCall
     /\ last.left.district = last.right.district
     /\ DifferOnlyInNoise(last.left.address, last.right.address)
     /\ \A x \in {last.left.address, last.right.address} :
           /\ WithoutDigits(WithoutFormatting(x)) # <<>>
           /\ \A n \in 1..Len(WithoutDigits(x)) : WithoutDigits(x)[n] # "Lou")
    => last.left_fingerprint = last.right_fingerprint

\* two addresses of one street with different house numbers, one of them
\* with a floor suffix, have one fingerprint
C28_StreetWitness ==
    /\ FingerprintCall
    /\ last.left.address = <<"Lu", "1", "2", "Lou">>
    /\ last.right.address = <<"Lu", "2">>
    /\ last.left_fingerprint = last.right_fingerprint

\* ------------------------------------------------------------------------
\* Properties of validate_relation_integrity and of the audit log
\* ------------------------------------------------------------------------

ValidateCall == last.op = "validate_relation_integrity"

\* C24: validate_relation_integrity returns, for each of notifications_sent,
\* listings_read and favorites, the number of its rows whose (source,
\* listing_id) is the key of no listing row, and it leaves every table as
\* it was: the orphan rows are still there, under the same keys
C24_ValidatorCountsAndKeeps ==
    ValidateCall =>
        /\ last.counts = OrphansOf(last.pre)
        /\ Db = last.pre

\* the validator has counted orphan rows in one table and none in another
C24_Witness ==
    /\ ValidateCall
    /\ last.counts.favorites > 0
    /\ last.counts.notifications_sent = 0
    /\ \E f \in favorites : ~KeyStored(listings, f[1], f[2])

\* C23: the audit log is append-only: every step of the gate, of a merge, of
\* a cleanup run and of the validator leaves the committed rows of
\* dedup_audit as they were, in their order, and at most appends rows
C23_AuditAppendOnly ==
    [][/\ Len(dedup_audit') >= Len(dedup_audit)
       /\ SubSeq(dedup_audit', 1, Len(dedup_audit)) = dedup_audit]_vars

\* the log of every later state extends the log an operation started from
C23_AuditExtendsEarlier ==
    "pre" \in DOMAIN last =>
        /\ Len(dedup_audit) >= Len(last.pre.dedup_audit)
        /\ SubSeq(dedup_audit, 1, Len(last.pre.dedup_audit)) = last.pre.dedup_audit

\* a merge has appended its row to a log that held a row of the gate
C23_Witness ==
    /\ MergeCall
    /\ last.merged > 0
    /\ last.pre.dedup_audit # <<>>
    /\ Len(dedup_audit) > Len(last.pre.dedup_audit)
    /\ dedup_audit[1].event_type # dedup_audit[Len(dedup_audit)].event_type

\* ------------------------------------------------------------------------
\* Properties of the order of the rows
\* ------------------------------------------------------------------------

\* a plan as its canonical id and the set of its duplicate ids
PlanSet(plans) ==
    {[canonical_listing_id  |-> plans[k].canonical_listing_id,
      duplicate_listing_ids |-> DuplicateIds(plans[k])] : k \in 1..Len(plans)}

\* the stores that hold the rows of db, inserted in another order
Reordered(db) ==
    {[db EXCEPT !.listings = rows] :
        rows \in {r \in [1..Len(db.listings) -> {db.listings[p] : p \in 1..Len(db.listings)}] :
                    \A p \in 1..Len(db.listings) : \E q \in 1..Len(db.listings) :
                        r[q] = db.listings[p]}}

\* C22: the plans of a run, each as its canonical id and its set of
\* duplicate ids, are the plans plan_cleanup produces on the same rows and
\* relation rows inserted in any other order
C22_PlansIndependentOfOrder ==
    CleanupCall =>
        \A other \in Reordered(last.pre) :
            /\ PlanSet(plan_cleanup(other, last.source, last.threshold))
                  = PlanSet(plan_cleanup(last.pre, last.source, last.threshold))
            /\ PlanSet(last.report.plans)
                  \subseteq PlanSet(plan_cleanup(other, last.source, last.threshold))

\* ------------------------------------------------------------------------
\* Properties of the notification runs
\* ------------------------------------------------------------------------

NotifyKeys == {<<"591", "a">>, <<"591", "b">>}

SendCall == last.op = "send_notifications"

\* the run has sent the message of the listing
SentTo(key) ==
    /\ SendCall
    /\ \E n \in 1..Len(last.listings) : last.listings[n] = key /\ last.sent[n]

\* the run has tried the listing and every send of it has failed
FailedTo(key) ==
    /\ SendCall
    /\ \E n \in 1..Len(last.listings) : last.listings[n] = key
    /\ \A n \in 1..Len(last.listings) : last.listings[n] = key => ~last.sent[n]

\* get_unnotified_listings returns a row of the listing
Eligible(db, key) ==
    \E n \in 1..Len(get_unnotified_listings(db, DefaultChannel)) :
        /\ Catalog[db.listings[get_unnotified_listings(db, DefaultChannel)[n]]].source = key[1]
        /\ Catalog[db.listings[get_unnotified_listings(db, DefaultChannel)[n]]].listing_id = key[2]

\* when a run returns, the listings whose send succeeded are recorded on
\* the channel and are not eligible, the number of them is the count the
\* run returns, and the listings whose send failed are not recorded and
\* are eligible as they were
C30_SendRecordsSuccessOnly ==
    SendCall =>
        /\ last.sent_count = Cardinality({n \in 1..Len(last.listings) : last.sent[n]})
        /\ \A key \in NotifyKeys :
              /\ SentTo(key) =>
                    /\ IsNotified(Db, key[1], key[2], DefaultChannel)
                    /\ ~Eligible(Db, key)
              /\ FailedTo(key) =>
                    /\ ~IsNotified(Db, key[1], key[2], DefaultChannel)
                    /\ Eligible(Db, key)

\* C30: a listing whose notification was sent on the channel is recorded
\* when the run returns, and get_unnotified_listings returns no listing
\* whose message the chat already holds; a listing whose send failed is
\* not recorded and is eligible for the next run
C30_NotifiedOnce ==
    \A key \in NotifyKeys :
        /\ SentTo(key) => IsNotified(Db, key[1], key[2], DefaultChannel)
        /\ key \in chat => ~Eligible(Db, key)
        /\ FailedTo(key) =>
              ~IsNotified(Db, key[1], key[2], DefaultChannel) /\ Eligible(Db, key)

\* a run has sent the message of one listing and failed to send another's
C30_SendWitness ==
    /\ SendCall
    /\ SentTo(<<"591", "a">>)
    /\ FailedTo(<<"591", "b">>)
    /\ last.sent_count = 1

\* ------------------------------------------------------------------------
\* Properties of /dedupall
\* ------------------------------------------------------------------------

DedupAllRunning == bot.dedupall.pc # "idle"

\* the last round left no group, merged no record, or reported a failure
RoundCallsForStop(frame) ==
    \/ frame.remaining_groups = <<0>>
    \/ frame.report[1].merged_records = 0
    \/ frame.report[1].cleanup_failed > 0

\* the loop goes on only after rounds that call for no stop, it is left
\* without an error only after a round that calls for one or after
\* max_rounds rounds, and the rounds never exceed max_rounds
DedupAllLoopStops ==
    DedupAllRunning =>
        /\ bot.dedupall.rounds <= max_rounds
        /\ (bot.dedupall.pc = "loop" /\ bot.dedupall.rounds > 0)
              => ~RoundCallsForStop(bot.dedupall)
        /\ bot.dedupall.pc = "final"
              => /\ bot.dedupall.rounds > 0
                 /\ \/ RoundCallsForStop(bot.dedupall)
                    \/ bot.dedupall.rounds = max_rounds

\* the step that leaves the command clears the flag, and schedules the
\* pipeline job again when the scheduler was not paused at the start
DedupAllExitRestores ==
    (DedupAllRunning /\ bot'.dedupall.pc = "idle") =>
        /\ ~bot'._pipeline_running
        /\ bot'.paused = bot.dedupall.paused_before
        /\ bot'.jobs = IF bot.dedupall.paused_before THEN 0 ELSE 1

DedupAllCall == last.op = "cmd_dedupall" /\ "frame" \in DOMAIN last

C29_NoProgressWitness ==
    /\ DedupAllCall
    /\ last.outcome = "done"
    /\ last.frame.report[1].merged_records = 0
    /\ last.frame.report[1].cleanup_failed = 0
    /\ last.frame.remaining_groups # <<0>>

\* a command has stopped after a round that reported a failed merge
C29_FailedWitness ==
    /\ DedupAllCall
    /\ last.outcome = "done"
    /\ last.frame.report[1].cleanup_failed > 0
    /\ last.frame.report[1].merged_records > 0
    /\ last.frame.remaining_groups # <<0>>

\* a command has ended on an error raised in its second round
C29_ErrorWitness ==
    /\ DedupAllCall
    /\ last.outcome = "failed"
    /\ last.frame.rounds = 2
    /\ ~bot._pipeline_running


\* ------------------------------------------------------------------------
\* Properties of the merge on any store
\* ------------------------------------------------------------------------

\* a listing row of the source holds the relation after the call
HeldAfterBy(kind, channel, lid) ==
    /\ KeyStored(listings, last.source, lid)
    /\ CASE kind = "favorite" -> IsFavorite(Db, last.source, lid)
         [] kind = "read"     -> IsRead(Db, last.source, lid)
         [] OTHER             -> IsNotified(Db, last.source, lid, channel)

\* the duplicate held the relation before the call
HeldBefore(kind, channel, lid) ==
    CASE kind = "favorite" -> IsFavorite(last.pre, last.source, lid)
      [] kind = "read"     -> IsRead(last.pre, last.source, lid)
      [] OTHER             -> IsNotified(last.pre, last.source, lid, channel)

RelationKinds ==
    {<<"favorite", "">>, <<"read", "">>} \cup {<<"notification", c>> : c \in Channels}

\* C31: a merge on a store without orphans leaves a store without
\* orphans, whether or not the canonical listing exists, and every relation
\* a listed duplicate held is held afterwards by an existing listing (the
\* canonical or the duplicate itself)
C31_MergeCreatesNoOrphan ==
    (MergeCall /\ OrphansOf(last.pre) = NoOrphans) =>
        /\ OrphansOf(Db) = NoOrphans
        /\ \A d \in MergeDuplicates : \A k \in RelationKinds :
              HeldBefore(k[1], k[2], d) =>
                  \/ HeldAfterBy(k[1], k[2], last.canonical_listing_id)
                  \/ HeldAfterBy(k[1], k[2], d)


\* the audit rows the call has appended
MergeEvents ==
    SubSeq(dedup_audit, Len(last.pre.dedup_audit) + 1, Len(dedup_audit))

\* the appended rows that name the duplicate
EventsNaming(d) ==
    {n \in 1..Len(MergeEvents) : MergeEvents[n].listing_id = d}

\* C36: a merge that returns has appended one audit event of type merge
\* for each duplicate, naming the duplicate and the canonical id, and no
\* other row; the count it returns is the number of events appended and
\* the number of listing rows the call deleted
C36_OneMergeEventPerDuplicate ==
    (MergeCall /\ ~last.raised) =>
        /\ Len(dedup_audit) >= Len(last.pre.dedup_audit)
        /\ SubSeq(dedup_audit, 1, Len(last.pre.dedup_audit)) = last.pre.dedup_audit
        /\ \A n \in 1..Len(MergeEvents) :
              /\ MergeEvents[n].event_type = "merge"
              /\ MergeEvents[n].source = last.source
              /\ MergeEvents[n].canonical_listing_id = <<last.canonical_listing_id>>
              /\ MergeEvents[n].listing_id \in MergeDuplicates
        /\ \A d \in MergeDuplicates : Cardinality(EventsNaming(d)) = 1
        /\ last.merged = Len(MergeEvents)
        /\ last.merged = Len(last.pre.listings) - Len(listings)


\* get_unread_listings returns a row of the listing
Unread(db, source, lid) ==
    \E n \in 1..Len(get_unread_listings(db)) :
        /\ Catalog[db.listings[get_unread_listings(db)[n]]].source = source
        /\ Catalog[db.listings[get_unread_listings(db)[n]]].listing_id = lid

\* C35: after a merge whose canonical listing exists, when a merged
\* duplicate had a read row and the canonical had none, the canonical has
\* one read row, with the content hash of the canonical listing, and is
\* not unread; a read, favorite or notification row the canonical had
\* before the merge is the same afterwards
C35_ReadMovesWithCanonicalHash ==
    MergeSucceeded =>
        /\ (/\ \E d \in MergeDuplicates : IsRead(last.pre, last.source, d)
            /\ ~IsRead(last.pre, last.source, last.canonical_listing_id))
             => /\ ReadRowsOf(listings_read, last.source, last.canonical_listing_id)
                   = {ReadRow(last.source, last.canonical_listing_id,
                              StoredHash(listings, last.source,
                                         last.canonical_listing_id))}
                /\ ~Unread(Db, last.source, last.canonical_listing_id)
        /\ IsRead(last.pre, last.source, last.canonical_listing_id)
             => ReadRowsOf(listings_read, last.source, last.canonical_listing_id)
                  = ReadRowsOf(last.pre.listings_read, last.source,
                               last.canonical_listing_id)
        /\ IsFavorite(last.pre, last.source, last.canonical_listing_id)
             => IsFavorite(Db, last.source, last.canonical_listing_id)
        /\ \A channel \in Channels :
             IsNotified(last.pre, last.source, last.canonical_listing_id, channel)
               => IsNotified(Db, last.source, last.canonical_listing_id, channel)

\* a merge has given the canonical, which had no read row, the read state
\* of a stored duplicate whose content hash is another one
C35_Witness ==
    /\ MergeSucceeded
    /\ last.merged > 0
    /\ ~IsRead(last.pre, last.source, last.canonical_listing_id)
    /\ Unread(last.pre, last.source, last.canonical_listing_id)
    /\ \E d \in MergeDuplicates :
         /\ KeyStored(last.pre.listings, last.source, d)
         /\ \E r \in ReadRowsOf(last.pre.listings_read, last.source, d) :
              r.raw_hash # StoredHash(last.pre.listings, last.source,
                                      last.canonical_listing_id)
    /\ IsRead(Db, last.source, last.canonical_listing_id)

\* a merge has left the read row the canonical already had, while a merged
\* duplicate had a read row too
C35_KeptWitness ==
    /\ MergeSucceeded
    /\ last.merged > 0
    /\ IsRead(last.pre, last.source, last.canonical_listing_id)
    /\ \E d \in MergeDuplicates : IsRead(last.pre, last.source, d)


\* ------------------------------------------------------------------------
\* Properties of the store under all its operations
\* ------------------------------------------------------------------------

\* C39: in every state reached from the empty store by gate inserts,
\* add_favorite, remove_favorite, mark_as_read, mark_many_as_read,
\* record_notification, merges and cleanup runs, validate_relation_integrity
\* counts no notification, read or favorite row without its listing
C39_NoOrphanReachable ==
    validate_relation_integrity(Db) = NoOrphans


\* ------------------------------------------------------------------------
\* Properties of the groups of plan_cleanup
\* ------------------------------------------------------------------------

\* C38: the score of every plan is at least the threshold of the run: the
\* canonical record scores at least the threshold against one of the
\* duplicates of its plan
C38_PlanScoreAtLeastThreshold ==
    CleanupCall =>
        \A k \in 1..Len(last.report.plans) :
            /\ last.report.plans[k].score >= last.threshold
            /\ \E d \in DuplicateIds(last.report.plans[k]) :
                  PairOf(last.report.plans[k], d).score >= last.threshold


\* no other listing of the bucket reaches the threshold with the entry, in
\* either order of the pair
Alone(i) ==
    \A j \in Bucketed \ {i} :
        SameBucket(i, j) =>
            /\ ScoreTable[i][j].score < last.threshold
            /\ ScoreTable[j][i].score < last.threshold

\* C37: every plan has at least one duplicate, its canonical id is not
\* among its duplicate ids, its duplicate ids are distinct, and its members
\* are listings stored under the source of the run whose fingerprint is the
\* plan's; a listing that is alone in its component is in no plan
C37_PlansWellFormed ==
    CleanupCall =>
        /\ \A k \in 1..Len(last.report.plans) :
              /\ Len(last.report.plans[k].duplicate_listing_ids) >= 1
              /\ last.report.plans[k].canonical_listing_id
                    \notin DuplicateIds(last.report.plans[k])
              /\ Cardinality(DuplicateIds(last.report.plans[k]))
                    = Len(last.report.plans[k].duplicate_listing_ids)
              /\ last.report.plans[k].entity_fingerprint # NoText
              /\ \A m \in PlanMembers(last.report.plans[k]) :
                    /\ KeyStored(last.pre.listings, last.source, m)
                    /\ Fingerprints[EntryOf(last.source, m)]
                          = last.report.plans[k].entity_fingerprint
        /\ \A i \in Bucketed :
              Alone(i) =>
                  \A k \in 1..Len(last.report.plans) :
                      Catalog[i].listing_id \notin PlanMembers(last.report.plans[k])

\* a run has planned a group with two duplicates
C37_Witness ==
    /\ CleanupCall
    /\ \E k \in 1..Len(last.report.plans) :
         /\ Len(last.report.plans[k].duplicate_listing_ids) = 2
         /\ Cardinality(PlanMembers(last.report.plans[k])) = 3

\* a run has found a listing alone in its component, in a bucket that holds
\* another listing
C37_AloneWitness ==
    /\ CleanupCall
    /\ \E i \in Bucketed :
         /\ Alone(i)
         /\ \E j \in Bucketed \ {i} : SameBucket(i, j)


\* the store when the loop of the apply run has ended the merges of its
\* first n plans
Checkpoint(n) ==
    ApplyPlans(last.pre, last.source, Take(last.report.plans, n), 1,
               last.failing, NoReport(FALSE, Take(last.report.plans, n))).db

\* at the checkpoint the plan has been merged: its duplicates are gone and
\* its canonical holds the relations of the group
MergedAt(cp, plan) ==
    /\ \A d \in PlanDuplicates(plan) : NoRowKeyed(cp, last.source, d)
    /\ KeyStored(cp.listings, last.source, plan.canonical_listing_id)
    /\ HoldsRelationsOf(last.pre, cp, last.source, plan.canonical_listing_id,
                        PlanMembers(plan))

\* at the checkpoint the listings of the plan are as they were before the
\* run
UntouchedAt(cp, plan) ==
    \A m \in PlanMembers(plan) :
        /\ KeyStored(cp.listings, last.source, m)
        /\ SameRelations(last.pre, cp, last.source, m)

\* C32: no listing id is in two plans of a run, as canonical or as
\* duplicate; and in an apply run the store after each group is one the run
\* can stop at: the plans merged so far are merged whole, the listings of
\* every later plan and of every plan whose merge raised are as they were
\* before the run, and no relation row has lost its listing
C32_PlansDisjointCheckpoints ==
    CleanupCall =>
        /\ \A k, l \in PlanRuns :
              k # l => PlanMembers(last.report.plans[k])
                          \cap PlanMembers(last.report.plans[l]) = {}
        /\ Applied =>
              \A n \in 0..Len(last.report.plans) :
                  /\ OrphansOf(Checkpoint(n)) = OrphansOf(last.pre)
                  /\ \A k \in PlanRuns :
                        IF k <= n /\ k \in MergedRuns
                        THEN MergedAt(Checkpoint(n), last.report.plans[k])
                        ELSE UntouchedAt(Checkpoint(n), last.report.plans[k])
        /\ Applied => Checkpoint(Len(last.report.plans)) = Db

\* an apply run has merged two plans one after the other; a listing of the
\* second plan held a relation that the merge of the first left alone
C32_Witness ==
    /\ Applied
    /\ Len(last.report.plans) = 2
    /\ last.failing = {}
    /\ last.report.merged_groups = 2
    /\ Checkpoint(1) # last.pre
    /\ Checkpoint(1) # Db
    /\ \E m \in PlanMembers(last.report.plans[2]) :
          IsFavorite(last.pre, last.source, m)


\* the batch size has cut plans off the run
Truncated ==
    Len(plan_cleanup(last.pre, last.source, last.threshold))
        > Len(last.report.plans)

\* C34: after an apply run that the batch size did not cut and in which no
\* merge failed, plan_cleanup with the threshold of the run returns no
\* plan; and an apply run that reports merged records leaves fewer listings
\* than it found
C34_OnePassFixedPoint ==
    /\ (Applied /\ last.report.cleanup_failed = 0 /\ ~Truncated) =>
          plan_cleanup(Db, last.source, last.threshold) = <<>>
    /\ (Applied /\ last.report.merged_records > 0) =>
          Len(listings) < Len(last.pre.listings)


\* ------------------------------------------------------------------------
\* Properties of a store filled through the gate
\* ------------------------------------------------------------------------

RunningPipelines == (IF bot.cmd_run THEN 1 ELSE 0) + bot.scheduled

\* the loop of /dedupall is executing
RunningDedupAll == IF bot.dedupall.pc # "idle" THEN 1 ELSE 0

\* C40: the scrape pipeline (of /run or of the scheduled job) and the
\* loop of /dedupall exclude each other: at most one of them is executing
\* in every reachable state, and _pipeline_running is true exactly while
\* one of them is executing
C40_PipelineAndDedupAllExclusive ==
    /\ RunningPipelines + RunningDedupAll <= 1
    /\ bot._pipeline_running <=> RunningPipelines + RunningDedupAll = 1
====
